---- MODULE Spec2Model ----
(***************************************************************************)
(* Model of the hypeAI trading agent: the portfolio simulator              *)
(* (src/src/trading/hyperliquid_api.py), the three-tier decision resolver  *)
(* (src/src/agent/decision_maker.py), the advanced decision pipeline      *)
(* (src/src/agent/advanced_decision_maker.py), the allocation maker        *)
(* (src/src/agent/allocation_maker.py), the indicator calculator           *)
(* (src/src/indicators/quant_indicator_calculator.py) and the trading loop *)
(* (src/src/main.py).                                                      *)
(*                                                                         *)
(* Numbers.  Python floats are modelled as exact fixed-point integers; the *)
(* unit of every quantity is stated where it is introduced.  Money of the  *)
(* simulator is in cents, a profit factor in thousandths.                  *)
(*                                                                         *)
(* Strings.  A token (a decision word, a provider answer) is a sequence of *)
(* one-character strings, so that strip(), upper() and lower() are         *)
(* computed character by character.                                        *)
(***************************************************************************)
EXTENDS Integers, Sequences, FiniteSets, TLC

VARIABLES
    \* simulation_state of hyperliquid_api.py
    portfolio_value,          \* simulation_state['portfolio_value'], cents
    positions,                \* simulation_state['positions']: asset -> position
    trade_history,            \* simulation_state['trade_history']
    initialized,              \* simulation_state['initialized']
    initial_allocation_done,  \* simulation_state['initial_allocation_done']
    cash,                     \* simulation_state['cash']: <<>> while the key is absent, else <<cents>>
    sim_result,               \* what the last simulator call returned (<<>> before any)
    simOps,                   \* number of simulator calls made so far
    \* one call of make_trading_decision(asset, indicators, portfolio_value)
    d_pc,          \* where the call is: "off", "prompt", "client", "primary",
                   \* "secondary", "tertiary", "done"
    d_indicators,  \* the indicators argument: key -> value, a key may be absent
    d_answer,      \* what the suggestion provider did: <<>> before it is asked
    d_result,      \* <<>> or <<the decision returned>>
    d_outcome,     \* "none", "returned" or "raised" (an exception left the call)
    d_tiers,       \* the tiers entered so far, in order
    d_failed,      \* the tiers that ended with an exception
    d_calls,       \* number of client.chat.completions.create calls made
    \* calls of make_advanced_trading_decision(asset, price_data, portfolio_value)
    a_pending,     \* the arguments of the calls still to make, in order
    a_results,     \* one entry per call made: its arguments and what it did
    \* the caller of make_trading_decision (the loop of main.py)
    d_history,     \* one entry per earlier call of make_trading_decision
    \* calls of make_advanced_initial_allocation_decision(assets, portfolio_value)
    al_pending,    \* the arguments of the calls still to make, in order
    al_results,    \* one entry per call made: its arguments and what it did
    \* calls of QuantIndicatorCalculator.calculate_indicators_from_data(price_data)
    q_pending,     \* the price windows of the calls still to make, in order
    q_results,     \* one entry per call made: its window and what it did
    \* two calls of execute_trade_simulation(asset, decision) on two threads
    t_pc,          \* thread -> the statement it is about to run
    t_local,       \* thread -> its local variables
    \* main() of main.py
    m_pc,          \* "off", "while", a step of the cycle, or "exited"
    m_iterations,  \* iterations
    m_asset        \* index in args.assets of the asset the cycle is at

simVars == <<portfolio_value, positions, trade_history, initialized,
             initial_allocation_done, cash, sim_result, simOps>>

decVars == <<d_pc, d_indicators, d_answer, d_result, d_outcome, d_tiers,
             d_failed, d_calls>>

advVars == <<a_pending, a_results>>

allocVars == <<al_pending, al_results>>

calcVars == <<q_pending, q_results>>

concVars == <<t_pc, t_local>>

mainVars == <<m_pc, m_iterations, m_asset>>

vars == <<simVars, decVars, advVars, d_history, allocVars, calcVars, concVars,
          mainVars>>

\* what the operations of each component leave alone
simOthers == <<decVars, advVars, d_history, allocVars, calcVars, concVars, mainVars>>
decOthers == <<simVars, advVars, d_history, allocVars, calcVars, concVars, mainVars>>
advOthers == <<simVars, decVars, d_history, allocVars, calcVars, concVars, mainVars>>
allocOthers == <<simVars, decVars, advVars, d_history, calcVars, concVars, mainVars>>
calcOthers == <<simVars, decVars, advVars, d_history, allocVars, concVars, mainVars>>
concOthers == <<decVars, advVars, d_history, allocVars, calcVars, mainVars>>
mainOthers == <<simVars, decVars, advVars, d_history, allocVars, calcVars, concVars>>

----------------------------------------------------------------------------
(* Characters and tokens *)

LowerLetters == <<"a","b","c","d","e","f","g","h","i","j","k","l","m",
                  "n","o","p","q","r","s","t","u","v","w","x","y","z">>
UpperLetters == <<"A","B","C","D","E","F","G","H","I","J","K","L","M",
                  "N","O","P","Q","R","S","T","U","V","W","X","Y","Z">>

IndexIn(seq, c) == CHOOSE i \in 1..Len(seq) : seq[i] = c
IsIn(seq, c) == \E i \in 1..Len(seq) : seq[i] = c

\* str.upper() / str.lower(), one character
UpperChar(c) == IF IsIn(LowerLetters, c) THEN UpperLetters[IndexIn(LowerLetters, c)] ELSE c
LowerChar(c) == IF IsIn(UpperLetters, c) THEN LowerLetters[IndexIn(UpperLetters, c)] ELSE c

\* str.upper() / str.lower()
Upper(s) == [i \in 1..Len(s) |-> UpperChar(s[i])]
Lower(s) == [i \in 1..Len(s) |-> LowerChar(s[i])]

\* the characters str.strip() removes
Whitespace == {" ", "\n", "\t"}

RECURSIVE LStrip(_)
LStrip(s) == IF s # <<>> /\ Head(s) \in Whitespace THEN LStrip(Tail(s)) ELSE s

RECURSIVE RStrip(_)
RStrip(s) == IF s # <<>> /\ s[Len(s)] \in Whitespace
             THEN RStrip(SubSeq(s, 1, Len(s) - 1)) ELSE s

\* str.strip()
Strip(s) == RStrip(LStrip(s))

BUY   == <<"B","U","Y">>
SELL  == <<"S","E","L","L">>
HOLD  == <<"H","O","L","D">>
LONG  == <<"L","O","N","G">>
SHORT == <<"S","H","O","R","T">>
ALLOCATE == <<"A","L","L","O","C","A","T","E">>

Min(a, b) == IF a < b THEN a ELSE b
Max(a, b) == IF a > b THEN a ELSE b
Abs(a) == IF a < 0 THEN -a ELSE a

----------------------------------------------------------------------------
(* Portfolio simulator: hyperliquid_api.py *)

Assets == {"BTC", "ETH"}

\* bound on the number of simulator calls in one behaviour
MaxSimOps == 3

\* config['starting_funds'] when STARTING_FUNDS is not set: 1000.0, in cents
ConfigStartingFunds == 100000

\* the starting_funds arguments tried, cents
StartingFunds == {50000, 100000}

\* samples of random.uniform for each branch of execute_trade_simulation, thousandths
BuyFactors     == {980, 1030}
SellFactors    == {970, 1020}
HoldFactors    == {995, 1005}
UnknownFactors == {998, 1002}

\* the decision words execute_trade_simulation is called with
TradeDecisions == {BUY, SELL, HOLD, <<"S","h","o","r","t">>, <<"W","A","I","T">>}

\* allocation_data: asset -> percent of the portfolio
Allocations ==
    { [a \in {"BTC", "ETH"} |-> IF a = "BTC" THEN 60 ELSE 40],
      [a \in {"BTC"} |-> 50],
      [a \in {"BTC", "ETH"} |-> IF a = "BTC" THEN 70 ELSE 50] }

\* the asset lists execute_initial_allocation_simulation is called with
AssetLists == { <<"BTC", "ETH">>, <<"ETH">> }

RECURSIVE SumUsd(_, _)
SumUsd(pos, S) ==
    IF S = {} THEN 0
    ELSE LET a == CHOOSE x \in S : TRUE
         IN pos[a].usd_value + SumUsd(pos, S \ {a})

\* get_cash_balance(): simulation_state.get('cash', simulation_state['portfolio_value'])
get_cash_balance == IF cash = <<>> THEN portfolio_value ELSE cash[1]

\* float multiplication by a factor given in thousandths
Scale(v, factor) == (v * factor) \div 1000

\* the branch of execute_trade_simulation taken for a decision word
FactorsFor(decision) ==
    LET d == Lower(decision)
    IN IF d \in {Lower(BUY), Lower(LONG)} THEN BuyFactors
       ELSE IF d \in {Lower(SELL), Lower(SHORT)} THEN SellFactors
       ELSE IF d = Lower(HOLD) THEN HoldFactors
       ELSE UnknownFactors

SimInit ==
    /\ portfolio_value = 100000
    /\ positions = << >>
    /\ trade_history = << >>
    /\ initialized = FALSE
    /\ initial_allocation_done = FALSE
    /\ cash = << >>
    /\ sim_result = << >>
    /\ simOps = 0

\* initialize_simulation(starting_funds): the 'cash' key is not touched
initialize_simulation(starting_funds) ==
    /\ simOps < MaxSimOps
    /\ portfolio_value' = starting_funds
    /\ positions' = << >>
    /\ trade_history' = << >>
    /\ initialized' = TRUE
    /\ initial_allocation_done' = FALSE
    /\ sim_result' = << >>
    /\ simOps' = simOps + 1
    /\ UNCHANGED cash
    /\ UNCHANGED simOthers

\* the state execute_* works on: initialize_simulation() runs first when the
\* simulation is not initialized
PvAtEntry  == IF initialized THEN portfolio_value ELSE ConfigStartingFunds
PosAtEntry == IF initialized THEN positions ELSE << >>
\* trade_history emptied at the entry of every call
HistAtEntry_Reset == << >>

HistAtEntry == IF initialized THEN trade_history ELSE << >>

\* the position written by every branch of execute_trade_simulation
TradedPosition(pos, asset, factor) ==
    LET current_position == IF asset \in DOMAIN pos THEN pos[asset]
                            ELSE [size |-> 0, entry_price |-> 0, usd_value |-> 0]
    IN [size        |-> Scale(current_position.size, factor),
        entry_price |-> Scale(current_position.entry_price, factor),
        usd_value   |-> Scale(current_position.usd_value, factor)]

\* total_value of execute_trade_simulation: simulation_state.get('cash', 0)
\* plus the usd_value of every position
TotalValue(pos) ==
    (IF cash = <<>> THEN 0 ELSE cash[1]) + SumUsd(pos, DOMAIN pos)

execute_trade_simulation(asset, decision, factor) ==
    /\ simOps < MaxSimOps
    /\ factor \in FactorsFor(decision)
    /\ LET initial_portfolio == PvAtEntry
           newPos == [a \in DOMAIN PosAtEntry \cup {asset} |->
                        IF a = asset THEN TradedPosition(PosAtEntry, asset, factor)
                        ELSE PosAtEntry[a]]
           total_value == TotalValue(newPos)
           pnl == total_value - initial_portfolio
           pnl_percentage == IF initial_portfolio > 0
                             THEN (pnl * 1000) \div initial_portfolio ELSE 0
           trade_record == [asset |-> asset, decision |-> decision,
                            initial_portfolio |-> initial_portfolio,
                            final_portfolio |-> total_value,
                            pnl |-> pnl, pnl_percentage |-> pnl_percentage]
       IN /\ positions' = newPos
          /\ portfolio_value' = total_value
          /\ trade_history' = Append(HistAtEntry, trade_record)
          /\ sim_result' = <<[executed_decision |-> decision,
                              initial_portfolio |-> initial_portfolio,
                              final_portfolio |-> total_value,
                              pnl |-> pnl, pnl_percentage |-> pnl_percentage]>>
    /\ initialized' = TRUE
    /\ initial_allocation_done' = (initialized /\ initial_allocation_done)
    /\ simOps' = simOps + 1
    /\ UNCHANGED cash
    /\ UNCHANGED simOthers

\* the loop of execute_initial_allocation_simulation over assets[i..]
\* AllocateFrom with the amounts allocated not deducted from the remainder
RECURSIVE AllocateFrom_NoDeduction(_, _, _, _, _)
AllocateFrom_NoDeduction(pos, remaining, assets, allocation_data, initial_portfolio) ==
    IF assets = <<>> THEN [pos |-> pos, remaining |-> remaining]
    ELSE LET asset == Head(assets)
         IN IF asset \in DOMAIN allocation_data
            THEN LET allocation_amount == (initial_portfolio * allocation_data[asset]) \div 100
                     p == IF asset \notin DOMAIN pos
                          THEN [size |-> allocation_amount, entry_price |-> 1000,
                                usd_value |-> allocation_amount]
                          ELSE [size |-> pos[asset].size + allocation_amount,
                                entry_price |-> pos[asset].entry_price,
                                usd_value |-> pos[asset].usd_value + allocation_amount]
                     pos2 == [a \in DOMAIN pos \cup {asset} |->
                                IF a = asset THEN p ELSE pos[a]]
                 IN AllocateFrom_NoDeduction(pos2, remaining, Tail(assets),
                                             allocation_data, initial_portfolio)
            ELSE AllocateFrom_NoDeduction(pos, remaining, Tail(assets),
                                          allocation_data, initial_portfolio)

RECURSIVE AllocateFrom(_, _, _, _, _)
AllocateFrom(pos, remaining, assets, allocation_data, initial_portfolio) ==
    IF assets = <<>> THEN [pos |-> pos, remaining |-> remaining]
    ELSE LET asset == Head(assets)
         IN IF asset \in DOMAIN allocation_data
            THEN LET allocation_amount == (initial_portfolio * allocation_data[asset]) \div 100
                     p == IF asset \notin DOMAIN pos
                          THEN [size |-> allocation_amount, entry_price |-> 1000,
                                usd_value |-> allocation_amount]
                          ELSE [size |-> pos[asset].size + allocation_amount,
                                entry_price |-> pos[asset].entry_price,
                                usd_value |-> pos[asset].usd_value + allocation_amount]
                     pos2 == [a \in DOMAIN pos \cup {asset} |->
                                IF a = asset THEN p ELSE pos[a]]
                 IN AllocateFrom(pos2, remaining - allocation_amount, Tail(assets),
                                 allocation_data, initial_portfolio)
            ELSE AllocateFrom(pos, remaining, Tail(assets), allocation_data,
                              initial_portfolio)

execute_initial_allocation_simulation(assets, allocation_data) ==
    /\ simOps < MaxSimOps
    /\ LET initial_portfolio == PvAtEntry
           r == AllocateFrom(PosAtEntry, initial_portfolio, assets, allocation_data,
                             initial_portfolio)
           trade_record == [asset |-> "INITIAL_ALLOCATION", decision |-> ALLOCATE,
                            initial_portfolio |-> initial_portfolio,
                            final_portfolio |-> initial_portfolio,
                            pnl |-> 0, pnl_percentage |-> 0,
                            allocation_breakdown |-> allocation_data]
       IN /\ positions' = r.pos
          /\ cash' = <<r.remaining>>
          /\ portfolio_value' = initial_portfolio
          /\ trade_history' = Append(HistAtEntry, trade_record)
          /\ sim_result' = <<[executed_decision |-> ALLOCATE,
                              initial_portfolio |-> initial_portfolio,
                              final_portfolio |-> initial_portfolio,
                              pnl |-> 0, pnl_percentage |-> 0,
                              allocation_breakdown |-> allocation_data]>>
    /\ initialized' = TRUE
    /\ initial_allocation_done' = TRUE
    /\ simOps' = simOps + 1
    /\ UNCHANGED simOthers

Initialize == \E f \in StartingFunds : initialize_simulation(f)
Trade == \E a \in Assets, d \in TradeDecisions :
            \E f \in FactorsFor(d) : execute_trade_simulation(a, d, f)
Allocate == \E l \in AssetLists, d \in Allocations :
            execute_initial_allocation_simulation(l, d)

SimNext == Initialize \/ Trade \/ Allocate

\* the resolver is not running
DecOff ==
    /\ d_pc = "off"
    /\ d_indicators = << >>
    /\ d_answer = << >>
    /\ d_result = << >>
    /\ d_outcome = "none"
    /\ d_tiers = << >>
    /\ d_failed = {}
    /\ d_calls = 0
    /\ d_history = << >>

\* the advanced pipeline is not running
AdvOff == a_pending = << >> /\ a_results = << >>

\* no allocation decision is asked for
AllocOff == al_pending = << >> /\ al_results = << >>

\* the indicator calculator is not called
CalcOff == q_pending = << >> /\ q_results = << >>

\* no thread is trading
ConcOff == t_pc = << >> /\ t_local = << >>

\* main() is not running
MainOff == m_pc = "off" /\ m_iterations = 0 /\ m_asset = 0

SimSpecInit == SimInit /\ DecOff /\ AdvOff /\ AllocOff /\ CalcOff /\ ConcOff /\ MainOff

SimSpec == SimSpecInit /\ [][SimNext]_vars

----------------------------------------------------------------------------
(* Decision resolver: decision_maker.py                                    *)
(*                                                                         *)
(* Units of an indicator map: rsi and stochastic k, d in points; macd      *)
(* value, signal and histogram in thousandths; ema, sma, current_price,    *)
(* the bands and bb_width in whole price units; bb_position in hundredths; *)
(* volume in units.  Scores and thresholds of quant_based_decision are in  *)
(* ten-thousandths, which holds every product of the code exactly.         *)

\* dict.get(key, default) or default, for a number: 0 is falsy
GetNum(m, k, default) == IF k \in DOMAIN m /\ m[k] # 0 THEN m[k] ELSE default

\* dict.get(key, default) or default, for a dict: the empty dict is falsy
GetMap(m, k, default) == IF k \in DOMAIN m /\ DOMAIN m[k] # {} THEN m[k] ELSE default

\* dict.get(key, default)
Get(m, k, default) == IF k \in DOMAIN m THEN m[k] ELSE default

\* simple_technical_decision giving back the decision of the call before,
\* when there is one
simple_technical_decision_Cached(indicators) ==
    IF d_history # << >> /\ d_history[Len(d_history)].result # << >>
    THEN d_history[Len(d_history)].result[1]
    ELSE LET rsi == GetNum(indicators, "rsi", 50)
         IN IF rsi < 30 THEN BUY
            ELSE IF rsi > 70 THEN SELL
            ELSE HOLD

\* simple_technical_decision(indicators)
simple_technical_decision(indicators) ==
    LET rsi == GetNum(indicators, "rsi", 50)
    IN IF rsi < 30 THEN BUY
       ELSE IF rsi > 70 THEN SELL
       ELSE HOLD

\* current_price of quant_based_decision; the divisions by it raise
\* ZeroDivisionError when it is 0
QuantPrice(indicators) == GetNum(indicators, "current_price", 0)

\* a quant_based_decision whose try block never raises
QuantRaises_Never(indicators) == FALSE

\* quant_based_decision raises inside its try block
QuantRaises(indicators) == QuantPrice(indicators) = 0

\* the try block of quant_based_decision, for a current_price other than 0
QuantScore(indicators) ==
    LET rsi == GetNum(indicators, "rsi", 50)
        macd == GetMap(indicators, "macd", [value |-> 0, signal |-> 0])
        macd_value == GetNum(macd, "value", 0)
        macd_signal == GetNum(macd, "signal", 0)
        macd_histogram == GetNum(macd, "histogram", 0)
        ema == GetNum(indicators, "ema", 0)
        sma == GetNum(indicators, "sma", 0)
        bb_data == GetMap(indicators, "bollinger_bands",
                          [upper |-> 0, middle |-> 0, lower |-> 0])
        current_price == QuantPrice(indicators)
        bb_position == GetNum(indicators, "bb_position", 50)
        bb_width == GetNum(indicators, "bb_width", 0)
        stochastic_data == GetMap(indicators, "stochastic", [k |-> 50, d |-> 50])
        stoch_k == GetNum(stochastic_data, "k", 50)
        stoch_d == GetNum(stochastic_data, "d", 50)
        volume == GetNum(indicators, "volume", 0)
        \* trend_strength > 0.02, volatility > 0.05, |histogram| > 0.001 * price
        is_trending == 50 * Abs(ema - sma) > current_price
        is_volatile == 20 * bb_width > current_price
        has_momentum == Abs(macd_histogram) > current_price
        trend_factor == IF is_trending THEN 15
                        ELSE IF is_volatile /\ ~is_trending THEN 8
                        ELSE 10
        rsi_score0 == IF rsi < 30 THEN (IF ~is_trending THEN 15000 ELSE 10000)
                      ELSE IF rsi < 40 THEN (IF ~is_trending THEN 10000 ELSE 5000)
                      ELSE IF rsi > 70 THEN (IF ~is_trending THEN -15000 ELSE -10000)
                      ELSE IF rsi > 60 THEN (IF ~is_trending THEN -10000 ELSE -5000)
                      ELSE 0
        macd_score0 == IF macd_value > macd_signal /\ has_momentum THEN 12000
                       ELSE IF macd_value > macd_signal THEN 8000
                       ELSE IF macd_value < macd_signal /\ has_momentum THEN -12000
                       ELSE IF macd_value < macd_signal THEN -8000
                       ELSE 0
        ma_score == IF current_price > ema /\ ema > sma
                    THEN (IF is_trending THEN 10000 ELSE 5000)
                    ELSE IF current_price < ema /\ ema < sma
                    THEN (IF is_trending THEN -10000 ELSE -5000)
                    ELSE 0
        bb_score0 == IF bb_position < 15 /\ ~is_trending THEN 15000
                     ELSE IF bb_position < 25 /\ ~is_trending THEN 10000
                     ELSE IF bb_position > 85 /\ ~is_trending THEN -15000
                     ELSE IF bb_position > 75 /\ ~is_trending THEN -10000
                     ELSE IF is_trending
                     THEN (IF current_price > Get(bb_data, "upper", current_price)
                              /\ ma_score > 0 THEN 8000
                           ELSE IF current_price < Get(bb_data, "lower", current_price)
                              /\ ma_score < 0 THEN -8000
                           ELSE 0)
                     ELSE 0
        stoch_diff == stoch_k - stoch_d
        stoch_score0 == IF stoch_k < 20 /\ stoch_diff > 5 THEN 12000
                        ELSE IF stoch_k < 30 /\ stoch_diff > 0 THEN 8000
                        ELSE IF stoch_k > 80 /\ stoch_diff < -5 THEN -12000
                        ELSE IF stoch_k > 70 /\ stoch_diff < 0 THEN -8000
                        ELSE 0
        rsi_score == (rsi_score0 * trend_factor) \div 10
        macd_score == (macd_score0 * trend_factor) \div 10
        bb_score == (bb_score0 * trend_factor) \div 10
        stoch_score == (stoch_score0 * trend_factor) \div 10
        total0 == rsi_score + macd_score + ma_score + bb_score + stoch_score
        four == <<rsi_score, macd_score, bb_score, stoch_score>>
        bullish_signals == Cardinality({i \in 1..4 : four[i] > 5000})
        bearish_signals == Cardinality({i \in 1..4 : four[i] < -5000})
        agreement_level == Max(bullish_signals, bearish_signals)
        total1 == IF agreement_level >= 3 THEN (total0 * 12) \div 10
                  ELSE IF agreement_level = 1 THEN (total0 * 7) \div 10
                  ELSE total0
        total_score == IF volume > 0 /\ Abs(total1) > 5000
                       THEN (total1 * 11) \div 10 ELSE total1
        base_buy_threshold == IF is_volatile \/ is_trending THEN 12000 ELSE 7000
        buy0 == IF agreement_level >= 3 THEN (base_buy_threshold * 8) \div 10
                ELSE IF agreement_level <= 1 THEN (base_buy_threshold * 15) \div 10
                ELSE base_buy_threshold
        trend_aligned == \/ total_score > 0 /\ ma_score > 0
                         \/ total_score < 0 /\ ma_score < 0
        buy_threshold == IF is_trending /\ ma_score # 0 /\ trend_aligned
                         THEN (buy0 * 8) \div 10 ELSE buy0
    IN [total_score |-> total_score, buy_threshold |-> buy_threshold,
        sell_threshold |-> -buy_threshold]

\* the decision quant_based_decision returns from its try block
QuantDecision(indicators) ==
    LET q == QuantScore(indicators)
    IN IF q.total_score >= q.buy_threshold THEN BUY
       ELSE IF q.total_score <= q.sell_threshold THEN SELL
       ELSE HOLD

\* quant_based_decision(indicators), with its except branch
quant_based_decision(indicators) ==
    IF QuantRaises(indicators) THEN simple_technical_decision(indicators)
    ELSE QuantDecision(indicators)

\* the keys the prompt of make_trading_decision reads with indicators[...]
PromptKeysPresent(indicators) ==
    /\ {"rsi", "macd", "ema", "sma", "bollinger_bands"} \subseteq DOMAIN indicators
    /\ {"value", "signal"} \subseteq DOMAIN indicators["macd"]
    /\ {"upper", "middle", "lower"} \subseteq DOMAIN indicators["bollinger_bands"]

\* the decision words the validation of make_trading_decision accepts
AcceptedWords == {BUY, SELL, HOLD, LONG, SHORT}

\* response.choices[0].message.content.strip().upper()
NormaliseAnswer(content) == Upper(Strip(content))

\* ValidateDecision with LONG and SHORT left out of the accepted words
ValidateDecision_NoSynonyms(decision) ==
    IF decision \in {BUY, SELL, HOLD} THEN decision ELSE HOLD

\* the validation of make_trading_decision: what the call returns for a
\* normalised answer
ValidateDecision(decision) ==
    IF decision \in AcceptedWords
    THEN (IF decision = LONG THEN BUY
          ELSE IF decision = SHORT THEN SELL
          ELSE decision)
    ELSE HOLD

\* the except branch going straight to simple_technical_decision
PrimaryExceptTarget_SkipSecondary == "tertiary"

\* where make_trading_decision goes when the try block raises: the except
\* branch calls quant_based_decision
PrimaryExceptTarget == "secondary"

\* PrimaryOutcome with an answer outside the accepted words raising
PrimaryOutcome_RejectMalformed(b) ==
    IF b.kind = "answer" /\ NormaliseAnswer(b.content) \in AcceptedWords
    THEN [raised |-> FALSE, value |-> <<ValidateDecision(NormaliseAnswer(b.content))>>]
    ELSE [raised |-> TRUE, value |-> << >>]

\* the try block of make_trading_decision for one behaviour of the provider:
\* create() raises, the message content is None (strip() raises), or the
\* content is a string, which is normalised and validated
PrimaryOutcome(b) ==
    IF b.kind = "answer"
    THEN [raised |-> FALSE, value |-> <<ValidateDecision(NormaliseAnswer(b.content))>>]
    ELSE [raised |-> TRUE, value |-> << >>]

\* the indicator map get_technical_indicators returns (taapi_client.py), with
\* the RSI the API gave; it has no current_price
MockIndicators(rsi) ==
    [rsi |-> rsi, macd |-> [value |-> 100, signal |-> 50],
     ema |-> 50000, sma |-> 49500,
     bollinger_bands |-> [upper |-> 51000, middle |-> 50000, lower |-> 49000]]

Without(m, K) == [k \in DOMAIN m \ K |-> m[k]]

RsiSamples == {0, 15, 29, 30, 35, 50, 65, 70, 71, 100}

\* maps with no usable current_price, some with keys missing
PartialIndicatorMaps ==
    { Without(MockIndicators(r), K) @@ extra :
        r \in RsiSamples,
        K \in {{}, {"rsi"}, {"macd"}, {"bollinger_bands"}, {"ema", "sma"}},
        extra \in {<< >>, [current_price |-> 0]} }

\* maps that carry every key quant_based_decision reads
FullIndicatorMaps ==
    { [rsi |-> r, macd |-> m, ema |-> es[1], sma |-> es[2],
       bollinger_bands |-> [upper |-> 108, middle |-> 100, lower |-> 92],
       current_price |-> p, bb_position |-> bp, bb_width |-> bw,
       stochastic |-> st, volume |-> v] :
        r \in {25, 35, 50, 65, 75},
        m \in {[value |-> 100, signal |-> 50, histogram |-> 50],
               [value |-> 300, signal |-> 100, histogram |-> 200],
               [value |-> -300, signal |-> -100, histogram |-> -200]},
        es \in {<<105, 100>>, <<100, 100>>, <<95, 100>>},
        p \in {90, 110},
        bp \in {0, 10, 90},
        bw \in {0, 16},
        st \in {[k |-> 50, d |-> 50], [k |-> 15, d |-> 5], [k |-> 85, d |-> 95]},
        v \in {0, 1000} }

IndicatorMaps == PartialIndicatorMaps \cup FullIndicatorMaps

\* what the suggestion provider may do when asked
ProviderAnswers ==
    { BUY, <<" ", "b", "u", "y", "\n">>, <<"S", "e", "l", "l">>, HOLD,
      <<"l", "o", "n", "g">>, <<"S", "H", "O", "R", "T", " ">>,
      <<"M", "A", "Y", "B", "E">>, << >>, <<"B", "U", "Y", ".">>,
      <<"h", "o", "l", "d", " ", "o", "n">> }

ProviderBehaviours ==
    { [kind |-> "raise", content |-> << >>], [kind |-> "none", content |-> << >>] }
    \cup { [kind |-> "answer", content |-> a] : a \in ProviderAnswers }

DecInit ==
    /\ d_pc = "prompt"
    /\ d_indicators \in IndicatorMaps
    /\ d_answer = << >>
    /\ d_result = << >>
    /\ d_outcome = "none"
    /\ d_tiers = << >>
    /\ d_failed = {}
    /\ d_calls = 0
    /\ d_history = << >>

\* make_trading_decision, lines 16-42: load the config and format the prompt;
\* a key the prompt reads and the map lacks raises KeyError out of the call
BuildPrompt ==
    /\ d_pc = "prompt"
    /\ IF PromptKeysPresent(d_indicators)
       THEN d_pc' = "client" /\ UNCHANGED d_outcome
       ELSE d_pc' = "done" /\ d_outcome' = "raised"
    /\ UNCHANGED <<d_indicators, d_answer, d_result, d_tiers, d_failed, d_calls>>
    /\ UNCHANGED decOthers

\* make_trading_decision, lines 44-56: openai.OpenAI(...) is built outside the
\* try block; it raises when no API key is configured
ConfigureClient ==
    /\ d_pc = "client"
    /\ \E constructed \in BOOLEAN :
         IF constructed
         THEN d_pc' = "primary" /\ UNCHANGED d_outcome
         ELSE d_pc' = "done" /\ d_outcome' = "raised"
    /\ UNCHANGED <<d_indicators, d_answer, d_result, d_tiers, d_failed, d_calls>>
    /\ UNCHANGED decOthers

\* make_trading_decision, lines 58-82: the primary tier
AskProvider ==
    /\ d_pc = "primary"
    /\ \E b \in ProviderBehaviours :
         LET o == PrimaryOutcome(b)
         IN /\ d_answer' = <<b>>
            /\ d_calls' = d_calls + 1
            /\ d_tiers' = Append(d_tiers, "primary")
            /\ IF o.raised
               THEN /\ d_failed' = d_failed \cup {"primary"}
                    /\ d_pc' = PrimaryExceptTarget
                    /\ UNCHANGED <<d_result, d_outcome>>
               ELSE /\ d_result' = o.value
                    /\ d_outcome' = "returned"
                    /\ d_pc' = "done"
                    /\ UNCHANGED d_failed
    /\ UNCHANGED d_indicators
    /\ UNCHANGED decOthers

\* quant_based_decision, lines 91-246: the secondary tier
Secondary ==
    /\ d_pc = "secondary"
    /\ d_tiers' = Append(d_tiers, "secondary")
    /\ IF QuantRaises(d_indicators)
       THEN /\ d_failed' = d_failed \cup {"secondary"}
            /\ d_pc' = "tertiary"
            /\ UNCHANGED <<d_result, d_outcome>>
       ELSE /\ d_result' = <<QuantDecision(d_indicators)>>
            /\ d_outcome' = "returned"
            /\ d_pc' = "done"
            /\ UNCHANGED d_failed
    /\ UNCHANGED <<d_indicators, d_answer, d_calls>>
    /\ UNCHANGED decOthers

\* quant_based_decision, lines 248-251, and simple_technical_decision: the
\* tertiary tier
Tertiary ==
    /\ d_pc = "tertiary"
    /\ d_tiers' = Append(d_tiers, "tertiary")
    /\ d_result' = <<simple_technical_decision(d_indicators)>>
    /\ d_outcome' = "returned"
    /\ d_pc' = "done"
    /\ UNCHANGED <<d_indicators, d_answer, d_failed, d_calls>>
    /\ UNCHANGED decOthers

DecNext == BuildPrompt \/ ConfigureClient \/ AskProvider \/ Secondary \/ Tertiary

\* the simulator is not used
SimOff == SimInit

Init == DecInit /\ SimOff /\ AdvOff /\ AllocOff /\ CalcOff /\ ConcOff /\ MainOff

Next == DecNext

Spec == Init /\ [][Next]_vars

\* bound on the number of make_trading_decision calls in one behaviour
MaxCalls == 3

\* the indicator maps of repeated calls: two maps as get_technical_indicators
\* returns them (no current_price: the secondary tier raises) and one map
\* that quant_based_decision decides on
LoopIndicatorMaps ==
    { MockIndicators(15), MockIndicators(50),
      [rsi |-> 25, macd |-> [value |-> 300, signal |-> 100, histogram |-> 200],
       ema |-> 105, sma |-> 100,
       bollinger_bands |-> [upper |-> 108, middle |-> 100, lower |-> 92],
       current_price |-> 110, bb_position |-> 10, bb_width |-> 16,
       stochastic |-> [k |-> 15, d |-> 5], volume |-> 1000] }

\* the call of make_trading_decision in progress, as the caller sees it
\* once it is over
CurrentCall ==
    [indicators |-> d_indicators,
     primary_failed |-> "primary" \in d_failed,
     outcome |-> d_outcome,
     result |-> d_result]

LoopInit ==
    /\ d_pc = "prompt"
    /\ d_indicators \in LoopIndicatorMaps
    /\ d_answer = << >>
    /\ d_result = << >>
    /\ d_outcome = "none"
    /\ d_tiers = << >>
    /\ d_failed = {}
    /\ d_calls = 0
    /\ d_history = << >>
    /\ SimOff
    /\ AdvOff
    /\ AllocOff
    /\ CalcOff /\ ConcOff /\ MainOff

\* main, lines 39-49: the loop calls make_trading_decision again, with the
\* indicators of the next asset or cycle
NextCall ==
    /\ d_pc = "done"
    /\ Len(d_history) + 1 < MaxCalls
    /\ d_history' = Append(d_history, CurrentCall)
    /\ d_pc' = "prompt"
    /\ \E indicators \in LoopIndicatorMaps : d_indicators' = indicators
    /\ d_answer' = << >>
    /\ d_result' = << >>
    /\ d_outcome' = "none"
    /\ d_tiers' = << >>
    /\ d_failed' = {}
    /\ d_calls' = 0
    /\ UNCHANGED <<simVars, advVars, allocVars, calcVars, concVars, mainVars>>

LoopNext == DecNext \/ NextCall

LoopSpec == LoopInit /\ [][LoopNext]_vars

----------------------------------------------------------------------------
(* Advanced decision pipeline: advanced_decision_maker.py                  *)
(*                                                                         *)
(* Units of an advanced indicator set: rsi, cci in points; macd value,     *)
(* signal, histogram and roc in thousandths; ema, sma, current_price and   *)
(* the bands in whole price units; volatility, atr and volatility_history  *)
(* in hundredths of a price unit; hurst_exponent, skewness and             *)
(* volume_sma_ratio in hundredths.  A signal is in millionths.  A position *)
(* fraction is in 1/16000, a dollar amount in 1/16000 of a dollar, which   *)
(* holds every product of calculate_position_size exactly.                 *)

\* detect_regime with the Hurst rules tried before the volatility rule
detect_regime_HurstFirst(indicators) ==
    LET volatility == indicators["volatility"]
        atr == indicators["atr"]
        hurst == indicators["hurst_exponent"]
        price == indicators["current_price"]
    IN IF hurst > 60 THEN "trending"
       ELSE IF hurst < 40 THEN "ranging"
       ELSE IF volatility > 5 * price THEN "volatile"
       ELSE IF atr > 2 * price THEN "trending"
       ELSE "ranging"

\* MarketRegimeDetector.detect_regime(indicators)
detect_regime(indicators) ==
    LET volatility == indicators["volatility"]
        atr == indicators["atr"]
        hurst == indicators["hurst_exponent"]
        price == indicators["current_price"]
        is_high_vol == volatility > 5 * price
        is_trending == hurst > 60
        is_mean_reverting == hurst < 40
    IN IF is_high_vol THEN "volatile"
       ELSE IF is_trending THEN "trending"
       ELSE IF is_mean_reverting THEN "ranging"
       ELSE IF atr > 2 * price THEN "trending"
       ELSE "ranging"

\* AdvancedTradingAlgorithm._calculate_trend_signal(indicators); ema and sma
\* are compared in hundredths of a price unit, their defaults being
\* current_price * 0.99 and current_price
calculate_trend_signal(indicators) ==
    LET rsi == indicators["rsi"]
        macd_val == indicators["macd"]["value"]
        macd_sig == indicators["macd"]["signal"]
        price == 100 * indicators["current_price"]
        ema == IF "ema" \in DOMAIN indicators THEN 100 * indicators["ema"]
               ELSE 99 * indicators["current_price"]
        sma == IF "sma" \in DOMAIN indicators THEN 100 * indicators["sma"]
               ELSE 100 * indicators["current_price"]
        ma == IF price > ema /\ ema > sma THEN 500000
              ELSE IF price < ema /\ ema < sma THEN -500000
              ELSE 0
        md == IF macd_val > macd_sig THEN 300000
              ELSE IF macd_val < macd_sig THEN -300000
              ELSE 0
        signal == ma + md
    IN IF 30 < rsi /\ rsi < 70 THEN (signal * 12) \div 10
       ELSE IF rsi > 70 THEN (signal * 8) \div 10
       ELSE IF rsi < 30 THEN (signal * 8) \div 10
       ELSE signal

\* num / den < a / 10, for den # 0
RatioBelow(num, den, a) ==
    IF den > 0 THEN 10 * num < a * den ELSE 10 * num > a * den

\* num / den > a / 10, for den # 0
RatioAbove(num, den, a) ==
    IF den > 0 THEN 10 * num > a * den ELSE 10 * num < a * den

\* AdvancedTradingAlgorithm._calculate_mean_reversion_signal(indicators);
\* bb_position is num / den, and 0.5 when the band width is zero
calculate_mean_reversion_signal(indicators) ==
    LET rsi == indicators["rsi"]
        bb_upper == indicators["bollinger_bands"]["upper"]
        bb_lower == indicators["bollinger_bands"]["lower"]
        current_price == indicators["current_price"]
        zero == bb_upper - bb_lower = 0
        num == IF zero THEN 1 ELSE current_price - bb_lower
        den == IF zero THEN 2 ELSE bb_upper - bb_lower
        byRsi == IF rsi < 30 THEN 800000
                 ELSE IF rsi < 40 THEN 500000
                 ELSE IF rsi > 70 THEN -800000
                 ELSE IF rsi > 60 THEN -500000
                 ELSE 0
        byBands == IF RatioBelow(num, den, 2) THEN 600000
                   ELSE IF RatioBelow(num, den, 3) THEN 400000
                   ELSE IF RatioAbove(num, den, 8) THEN -600000
                   ELSE IF RatioAbove(num, den, 7) THEN -400000
                   ELSE 0
    IN byRsi + byBands

\* AdvancedTradingAlgorithm._calculate_momentum_signal(indicators)
calculate_momentum_signal(indicators) ==
    LET roc == indicators["roc"]
        macd_hist == indicators["macd"]["histogram"]
        cci == Get(indicators, "cci", 0)
        volume_ratio == Get(indicators, "volume_sma_ratio", 100)
        byRoc == IF roc > 0 THEN 400 * Min(roc * 10, 1000)
                 ELSE IF roc < 0 THEN -(400 * Min(Abs(roc) * 10, 1000))
                 ELSE 0
        byHist == IF macd_hist > 0 THEN 300000
                  ELSE IF macd_hist < 0 THEN -300000
                  ELSE 0
        byCci == IF cci > 100 THEN 300000
                 ELSE IF cci < -100 THEN -300000
                 ELSE IF cci > 0 THEN 100000
                 ELSE IF cci < 0 THEN -100000
                 ELSE 0
        signal == byRoc + byHist + byCci
    IN IF volume_ratio > 120 THEN (signal * 12) \div 10
       ELSE IF volume_ratio < 80 THEN (signal * 8) \div 10
       ELSE signal

RECURSIVE SumSeq(_)
SumSeq(s) == IF s = << >> THEN 0 ELSE Head(s) + SumSeq(Tail(s))

\* AdvancedTradingAlgorithm._calculate_volatility_signal(indicators); the
\* mean of volatility_history is sum / len, a history with a zero sum is not
\* among the inputs
calculate_volatility_signal(indicators) ==
    LET volatility == indicators["volatility"]
        hurst == indicators["hurst_exponent"]
        skewness == indicators["skewness"]
        history == Get(indicators, "volatility_history", <<volatility>>)
        sum == SumSeq(history)
        len == Len(history)
        byHurst == IF hurst > 60 THEN 200000
                   ELSE IF hurst < 40 THEN -200000
                   ELSE 0
        \* volatility > mean * 1.5, then 0.1 * (volatility / mean)
        breakout == IF 2 * volatility * len > 3 * sum
                    THEN (100000 * volatility * len) \div sum
                    ELSE 0
        bySkew == IF skewness > 50 THEN 100000
                  ELSE IF skewness < -50 THEN -100000
                  ELSE 0
    IN byHurst + breakout + bySkew

\* AdvancedTradingAlgorithm._adjust_signals_for_regime(signals, regime)
adjust_signals_for_regime(signals, regime) ==
    LET trend_weight == IF regime = "trending" THEN 12 ELSE 8
        mean_rev_weight == IF regime = "trending" THEN 8
                           ELSE IF regime = "volatile" THEN 6
                           ELSE 12
        trend_signal == (signals.trend_signal * trend_weight) \div 10
        mean_rev_signal == (signals.mean_reversion_signal * mean_rev_weight) \div 10
    IN (trend_signal + mean_rev_signal + signals.momentum_signal
        + signals.volatility_signal) \div 4

\* max_position_size set to 1.0 (a percentage taken for a fraction)
max_position_size_Whole == 16000

\* AdvancedRiskManager.__init__: max_position_size 0.1 and max_total_risk
\* 0.25, in 1/16000; kelly_fraction 0.25, in hundredths
max_position_size == 1600
max_total_risk == 4000
kelly_fraction == 25

\* estimate_win_rate without the bounds 0.45 and 0.65 of its last line
estimate_win_rate_Unbounded(indicators, regime) ==
    (IF 30 <= indicators["rsi"] /\ indicators["rsi"] <= 70 THEN 50 ELSE 60)
    + (IF Abs(indicators["roc"]) > 30 THEN 3 ELSE 0)
    - (IF indicators["volatility"] > 5 THEN 5 ELSE 0)
    + (IF regime = "volatile" THEN -5 ELSE IF regime = "trending" THEN 2 ELSE 0)

\* AdvancedRiskManager._estimate_win_rate(indicators, regime), in hundredths
estimate_win_rate(indicators, regime) ==
    LET rsi == indicators["rsi"]
        roc == indicators["roc"]
        volatility == indicators["volatility"]
        w1 == IF 30 <= rsi /\ rsi <= 70 THEN 55 - 5
              ELSE IF rsi < 30 \/ rsi > 70 THEN 55 + 5
              ELSE 55
        w2 == IF Abs(roc) > 30 THEN w1 + 3 ELSE w1
        w3 == IF volatility > 5 THEN w2 - 5 ELSE w2
        w4 == IF regime = "volatile" THEN w3 - 5
              ELSE IF regime = "trending" THEN w3 + 2
              ELSE w3
    IN Max(45, Min(65, w4))

\* the position fraction of calculate_position_size before the dollar
\* amount is taken, in 1/16000: avg_win 0.02 and avg_loss 0.015 give
\* (b * p - q) / b = (20 p - 15 (100 - p)) / 2000 for p in hundredths
PositionFraction(indicators, regime) ==
    LET win_rate == estimate_win_rate(indicators, regime)
        kelly0 == (20 * win_rate - 15 * (100 - win_rate)) * 8
        kelly1 == Max(0, Min(max_position_size, kelly0))
        kelly2 == IF regime = "volatile" THEN (kelly1 * 7) \div 10
                  ELSE IF regime = "trending" THEN (kelly1 * 12) \div 10
                  ELSE kelly1
        position_size == (kelly2 * kelly_fraction) \div 100
    IN Min(max_position_size, position_size)

\* AdvancedRiskManager.calculate_position_size(asset, indicators,
\* portfolio_value, regime): portfolio_value in dollars, the result in 1/16000
\* of a dollar
calculate_position_size(indicators, pv, regime) ==
    LET dollar_amount == pv * PositionFraction(indicators, regime)
    IN Min(dollar_amount, pv * max_total_risk)

\* the signals dictionary generate_advanced_signals builds first
IndividualSignals(indicators) ==
    [trend_signal |-> calculate_trend_signal(indicators),
     mean_reversion_signal |-> calculate_mean_reversion_signal(indicators),
     momentum_signal |-> calculate_momentum_signal(indicators),
     volatility_signal |-> calculate_volatility_signal(indicators)]

\* CombineSignals with the equal weights of the ranging market in every regime
CombineSignals_EqualWeights(signals, regime, indicators, pv) ==
    LET combined_signal ==
            (25 * signals.trend_signal + 25 * signals.mean_reversion_signal
             + 25 * signals.momentum_signal + 25 * signals.volatility_signal) \div 100
    IN [combined_signal |-> combined_signal,
        position_size |-> calculate_position_size(indicators, pv, regime),
        regime |-> regime,
        individual_signals |->
            signals @@ [regime_signal |-> adjust_signals_for_regime(signals, regime)],
        confidence |-> Abs(combined_signal)]

\* the rest of generate_advanced_signals, from the four signals and the
\* regime: the regime signal, the position size, the weighted combination
\* and the dictionary returned
CombineSignals(signals, regime, indicators, pv) ==
    LET regime_signal == adjust_signals_for_regime(signals, regime)
        position_size == calculate_position_size(indicators, pv, regime)
        combined_signal ==
            IF regime = "trending"
            THEN (35 * signals.trend_signal + 25 * signals.momentum_signal
                  + 20 * regime_signal + 20 * signals.volatility_signal) \div 100
            ELSE IF regime = "volatile"
            THEN (30 * signals.mean_reversion_signal + 25 * signals.volatility_signal
                  + 25 * regime_signal + 20 * signals.momentum_signal) \div 100
            ELSE (25 * signals.trend_signal + 25 * signals.mean_reversion_signal
                  + 25 * signals.momentum_signal + 25 * signals.volatility_signal) \div 100
    IN [combined_signal |-> combined_signal,
        position_size |-> position_size,
        regime |-> regime,
        individual_signals |->
            signals @@ [regime_signal |-> regime_signal],
        confidence |-> Abs(combined_signal)]

\* AdvancedTradingAlgorithm.generate_advanced_signals(indicators, asset,
\* portfolio_value)
generate_advanced_signals(indicators, pv) ==
    CombineSignals(IndividualSignals(indicators), detect_regime(indicators),
                   indicators, pv)

\* DecideFromSignal with >= and <= in place of > and <
DecideFromSignal_Inclusive(combined_signal) ==
    IF combined_signal >= 300000 THEN [decision |-> BUY, strength |-> "STRONG"]
    ELSE IF combined_signal >= 100000 THEN [decision |-> BUY, strength |-> "WEAK"]
    ELSE IF combined_signal <= -300000 THEN [decision |-> SELL, strength |-> "STRONG"]
    ELSE IF combined_signal <= -100000 THEN [decision |-> SELL, strength |-> "WEAK"]
    ELSE [decision |-> HOLD, strength |-> "NEUTRAL"]

\* DecideFromSignal with the weak buy test placed before the strong one
DecideFromSignal_WeakFirst(combined_signal) ==
    IF combined_signal > 100000 THEN [decision |-> BUY, strength |-> "WEAK"]
    ELSE IF combined_signal > 300000 THEN [decision |-> BUY, strength |-> "STRONG"]
    ELSE IF combined_signal < -300000 THEN [decision |-> SELL, strength |-> "STRONG"]
    ELSE IF combined_signal < -100000 THEN [decision |-> SELL, strength |-> "WEAK"]
    ELSE [decision |-> HOLD, strength |-> "NEUTRAL"]

\* the thresholds of make_advanced_trading_decision on the combined signal
DecideFromSignal(combined_signal) ==
    IF combined_signal > 300000 THEN [decision |-> BUY, strength |-> "STRONG"]
    ELSE IF combined_signal > 100000 THEN [decision |-> BUY, strength |-> "WEAK"]
    ELSE IF combined_signal < -300000 THEN [decision |-> SELL, strength |-> "STRONG"]
    ELSE IF combined_signal < -100000 THEN [decision |-> SELL, strength |-> "WEAK"]
    ELSE [decision |-> HOLD, strength |-> "NEUTRAL"]

----------------------------------------------------------------------------
(* Calls of the advanced pipeline *)

\* the least number of bars calculate_advanced_indicators accepts
MinBars == 30

\* AdvancedFallback with the default position at 10% of portfolio_value
AdvancedFallback_TenPercent(in) ==
    IF in.n = 0
    THEN [outcome |-> "raised", result |-> << >>, fraction |-> << >>]
    ELSE LET close == in.close
             basic_indicators ==
                 [rsi |-> 50, macd |-> [value |-> 0, signal |-> 0, histogram |-> 0],
                  ema |-> close, sma |-> close,
                  bollinger_bands |-> [upper |-> (close * 102) \div 100,
                                       middle |-> close,
                                       lower |-> (close * 98) \div 100],
                  current_price |-> close]
         IN [outcome |-> "returned",
             fraction |-> << >>,
             result |-> <<[decision |-> quant_based_decision(basic_indicators),
                           strength |-> "FALLBACK",
                           combined_signal |-> 0,
                           confidence |-> 300000,
                           regime |-> "unknown",
                           position_size |-> in.pv * 1600,
                           detailed_signals |-> << >>,
                           indicators_used |-> basic_indicators]>>]

\* the except branch of make_advanced_trading_decision: basic_indicators is
\* built from price_data['close'].iloc[-1], which raises IndexError on an
\* empty window, and quant_based_decision decides
AdvancedFallback(in) ==
    IF in.n = 0
    THEN [outcome |-> "raised", result |-> << >>, fraction |-> << >>]
    ELSE LET close == in.close
             basic_indicators ==
                 [rsi |-> 50, macd |-> [value |-> 0, signal |-> 0, histogram |-> 0],
                  ema |-> close, sma |-> close,
                  bollinger_bands |-> [upper |-> (close * 102) \div 100,
                                       middle |-> close,
                                       lower |-> (close * 98) \div 100],
                  current_price |-> close]
         IN [outcome |-> "returned",
             fraction |-> << >>,
             result |-> <<[decision |-> quant_based_decision(basic_indicators),
                           strength |-> "FALLBACK",
                           combined_signal |-> 0,
                           confidence |-> 300000,
                           regime |-> "unknown",
                           position_size |-> in.pv * 160,
                           detailed_signals |-> << >>,
                           indicators_used |-> basic_indicators]>>]

\* the dictionary the try block of make_advanced_trading_decision returns,
\* with the position fraction calculate_position_size went through
AdvancedResult(indicators, advanced_signals, d) ==
    [outcome |-> "returned",
     fraction |-> <<PositionFraction(indicators, advanced_signals.regime)>>,
     result |-> <<[decision |-> d.decision,
                   strength |-> d.strength,
                   combined_signal |-> advanced_signals.combined_signal,
                   confidence |-> advanced_signals.confidence,
                   regime |-> advanced_signals.regime,
                   position_size |-> advanced_signals.position_size,
                   detailed_signals |-> advanced_signals.individual_signals,
                   indicators_used |->
                       [rsi |-> indicators["rsi"],
                        macd |-> indicators["macd"]["value"],
                        volatility |-> indicators["volatility"],
                        hurst_exponent |-> indicators["hurst_exponent"]]]>>]

\* the thresholds applied to the combined signal of advanced_signals
DecideFrom(indicators, advanced_signals) ==
    AdvancedResult(indicators, advanced_signals,
                   DecideFromSignal(advanced_signals.combined_signal))

\* the try block of make_advanced_trading_decision for a window that
\* calculate_advanced_indicators accepts and turns into in.indicators
AdvancedDecision(in) ==
    DecideFrom(in.indicators, generate_advanced_signals(in.indicators, in.pv))

\* make_advanced_trading_decision(asset, price_data, portfolio_value): the
\* next pending call is made
make_advanced_trading_decision ==
    /\ a_pending # << >>
    /\ a_results' = Append(a_results,
                           [input |-> Head(a_pending)]
                           @@ (IF Head(a_pending).n >= MinBars
                               THEN AdvancedDecision(Head(a_pending))
                               ELSE AdvancedFallback(Head(a_pending))))
    /\ a_pending' = Tail(a_pending)
    /\ UNCHANGED advOthers

\* the indicator sets calculate_advanced_indicators is taken to return
AdvMacd ==
    { [value |-> 0, signal |-> 0, histogram |-> 0],
      [value |-> 300, signal |-> 100, histogram |-> 200],
      [value |-> -300, signal |-> -100, histogram |-> -200] }

\* no ema and sma (as calculate_advanced_indicators returns), a bullish and a
\* bearish stack around the price 100
AdvAverages == { << >>, [ema |-> 95, sma |-> 90], [ema |-> 105, sma |-> 110] }

\* bands around the price 100: bb_position 0.5, zero width, 0.17, 0.29, 0.71, 0.83
AdvBands ==
    { [upper |-> 110, middle |-> 100, lower |-> 90],
      [upper |-> 100, middle |-> 100, lower |-> 100],
      [upper |-> 125, middle |-> 110, lower |-> 95],
      [upper |-> 115, middle |-> 104, lower |-> 94],
      [upper |-> 106, middle |-> 95, lower |-> 85],
      [upper |-> 105, middle |-> 90, lower |-> 75] }

\* volatility, atr, hurst_exponent, skewness and an optional volatility_history
AdvRegimeInputs ==
    { [volatility |-> 3, atr |-> 100, hurst_exponent |-> 50, skewness |-> 0],
      [volatility |-> 600, atr |-> 100, hurst_exponent |-> 80, skewness |-> 0],
      [volatility |-> 300, atr |-> 100, hurst_exponent |-> 80, skewness |-> 100],
      [volatility |-> 300, atr |-> 300, hurst_exponent |-> 30, skewness |-> -100],
      [volatility |-> 3, atr |-> 300, hurst_exponent |-> 50, skewness |-> 0],
      [volatility |-> 600, atr |-> 300, hurst_exponent |-> 30, skewness |-> 0],
      [volatility |-> 500, atr |-> 200, hurst_exponent |-> 60, skewness |-> 50],
      [volatility |-> 300, atr |-> 100, hurst_exponent |-> 40, skewness |-> 0,
       volatility_history |-> <<100, 100>>],
      [volatility |-> 300, atr |-> 100, hurst_exponent |-> 50, skewness |-> 0,
       volatility_history |-> <<10, 10>>] }

AdvIndicators(rsi, macd, avg, bands, roc, cci, vr, reg) ==
    [rsi |-> rsi, macd |-> macd, cci |-> cci, bollinger_bands |-> bands,
     volume_sma_ratio |-> vr, roc |-> roc, current_price |-> 100]
    @@ avg @@ reg

AdvRsi == {25, 30, 35, 50, 65, 70, 75}

AdvIndicatorSets ==
    { AdvIndicators(rsi, macd, avg, bands, roc, cci, vr, reg) :
        rsi \in AdvRsi, macd \in AdvMacd, avg \in AdvAverages, bands \in AdvBands,
        roc \in {0, 20, -200}, cci \in {0}, vr \in {100}, reg \in AdvRegimeInputs }
    \cup
    { AdvIndicators(rsi, macd, << >>, bands, roc, cci, vr, reg) :
        rsi \in {25, 50}, macd \in AdvMacd,
        bands \in {[upper |-> 110, middle |-> 100, lower |-> 90]},
        roc \in {0, 20, 200, -200}, cci \in {0, 50, 150, -50, -150},
        vr \in {50, 100, 150}, reg \in AdvRegimeInputs }

\* the arguments of the calls made: windows long enough with each indicator
\* set, some of them with other portfolio values, and windows too short
AdvInputs ==
    { [n |-> 50, close |-> 100, indicators |-> i, pv |-> 1000] : i \in AdvIndicatorSets }
    \cup
    { [n |-> 30, close |-> 100, pv |-> pv,
       indicators |-> AdvIndicators(rsi, [value |-> 0, signal |-> 0, histogram |-> 0],
                                    << >>, [upper |-> 110, middle |-> 100, lower |-> 90],
                                    roc, 0, 100, reg)] :
        pv \in {0, 1, 10000}, rsi \in AdvRsi, roc \in {0, 200}, reg \in AdvRegimeInputs }
    \cup
    { [n |-> n, close |-> c, pv |-> pv, indicators |-> << >>] :
        n \in {0, 1, 29}, c \in {0, 100}, pv \in {0, 1000} }

AdvInit ==
    /\ \E in \in AdvInputs : a_pending = <<in>>
    /\ a_results = << >>
    /\ SimOff
    /\ DecOff
    /\ AllocOff
    /\ CalcOff /\ ConcOff /\ MainOff

AdvNext == make_advanced_trading_decision

AdvSpec == AdvInit /\ [][AdvNext]_vars

\* two calls in a row, on indicator sets of a ranging market whose combined
\* signals lie on both sides of every threshold and on the thresholds
AdvPairIndicatorSets ==
    { AdvIndicators(rsi, macd, << >>, bands, 0, 0, 100,
                    [volatility |-> 3, atr |-> 100, hurst_exponent |-> 50,
                     skewness |-> 0]) :
        rsi \in {25, 50, 75}, macd \in AdvMacd, bands \in AdvBands }

AdvPairInit ==
    /\ \E i1 \in AdvPairIndicatorSets, i2 \in AdvPairIndicatorSets :
          a_pending = << [n |-> 50, close |-> 100, indicators |-> i1, pv |-> 1000],
                         [n |-> 50, close |-> 100, indicators |-> i2, pv |-> 1000] >>
    /\ a_results = << >>
    /\ SimOff
    /\ DecOff
    /\ AllocOff
    /\ CalcOff /\ ConcOff /\ MainOff

AdvPairSpec == AdvPairInit /\ [][AdvNext]_vars

----------------------------------------------------------------------------
(* C1: after every mutation of the simulation state, portfolio_value equals *)
(* the cash balance that get_cash_balance reports plus the sum of usd_value *)
(* over all positions.                                                      *)
C1_ValueIsCashPlusPositions ==
    portfolio_value = get_cash_balance + SumUsd(positions, DOMAIN positions)

\* a finished call of the simulator that shows the case of C1
C1_Witness == simOps >= 2 /\ initialized /\ cash # << >>

----------------------------------------------------------------------------
(* Claims about the decision resolver *)

Range(seq) == {seq[i] : i \in 1..Len(seq)}

Decisions == {BUY, SELL, HOLD}

\* the provider was asked and answered with a string
Answered == d_answer # << >> /\ d_answer[1].kind = "answer"

(* C2: the decision resolver never raises past its caller: every finished  *)
(* make_trading_decision call has returned a decision in {BUY, SELL, HOLD}, *)
(* whatever keys the indicator map lacks and whether or not the suggestion  *)
(* provider can be constructed.                                             *)
C2_NeverRaisesPastCaller ==
    d_pc = "done" =>
        /\ d_outcome = "returned"
        /\ d_result # << >>
        /\ d_result[1] \in Decisions

(* C3: within one make_trading_decision call the tiers run in strict order: *)
(* the provider is invoked at most once, the secondary tier runs only after *)
(* the primary failed, the tertiary only after the secondary raised, and    *)
(* the call ends with the first tier that produces a decision.              *)
C3_TiersInStrictOrder ==
    /\ d_calls <= 1
    /\ d_calls = Cardinality({i \in 1..Len(d_tiers) : d_tiers[i] = "primary"})
    /\ d_tiers = SubSeq(<<"primary", "secondary", "tertiary">>, 1, Len(d_tiers))
    /\ \A i \in 2..Len(d_tiers) : d_tiers[i - 1] \in d_failed
    /\ d_outcome = "returned" =>
          /\ d_tiers # << >>
          /\ d_tiers[Len(d_tiers)] \notin d_failed
          /\ d_pc = "done"
    /\ (d_tiers # << >> /\ d_tiers[Len(d_tiers)] \notin d_failed) =>
          /\ d_pc = "done"
          /\ d_outcome = "returned"

\* all three tiers ran and the third produced the decision
C3_Witness ==
    /\ d_pc = "done"
    /\ d_tiers = <<"primary", "secondary", "tertiary">>
    /\ d_failed = {"primary", "secondary"}
    /\ d_outcome = "returned"

(* C8: when the provider answers, the answer is trimmed and upper-cased;    *)
(* BUY, SELL and HOLD are returned as they are, LONG becomes BUY, SHORT     *)
(* becomes SELL, any other token yields HOLD; the result is always one of   *)
(* BUY, SELL, HOLD.                                                         *)
C8_AnswerNormalised ==
    Answered =>
        LET content == d_answer[1].content
            token == Upper(Strip(content))
        IN /\ d_outcome = "returned"
           /\ d_result # << >>
           /\ d_result[1] \in Decisions
           /\ token \in Decisions => d_result[1] = token
           /\ token = LONG => d_result[1] = BUY
           /\ token = SHORT => d_result[1] = SELL
           /\ token \notin {BUY, SELL, HOLD, LONG, SHORT} => d_result[1] = HOLD
           /\ content = <<" ", "b", "u", "y", "\n">> => d_result[1] = BUY
           /\ content = <<"S", "e", "l", "l">> => d_result[1] = SELL
           /\ content = <<"l", "o", "n", "g">> => d_result[1] = BUY
           /\ content = <<"S", "H", "O", "R", "T", " ">> => d_result[1] = SELL
           /\ content = <<"B", "U", "Y", ".">> => d_result[1] = HOLD

\* the provider answered "long" and the call returned BUY
C8_Witness ==
    /\ Answered
    /\ d_answer[1].content = <<"l", "o", "n", "g">>
    /\ d_result = <<BUY>>

\* the provider answered with a string outside the five accepted words
Malformed ==
    /\ Answered
    /\ Upper(Strip(d_answer[1].content)) \notin {BUY, SELL, HOLD, LONG, SHORT}

(* C9, as claimed: a malformed answer of the provider is treated as a       *)
(* failure of the primary tier, and the resolver advances to the secondary  *)
(* tier instead of ending at the primary tier.                              *)
C9_MalformedAdvancesToSecondary ==
    (Malformed /\ d_pc = "done") => "secondary" \in Range(d_tiers)

(* C9, amended: a malformed answer of the provider is not a failure: the    *)
(* call ends at the primary tier and returns HOLD, no other tier runs; the  *)
(* secondary tier runs only when the provider call raised or gave no        *)
(* message content.                                                         *)
C9_MalformedEndsAtPrimary ==
    /\ Malformed =>
          /\ d_pc = "done"
          /\ d_outcome = "returned"
          /\ d_result = <<HOLD>>
          /\ d_tiers = <<"primary">>
          /\ d_failed = {}
    /\ "secondary" \in Range(d_tiers) => ~Answered

\* the provider answered MAYBE and the call is over
C9_Witness ==
    /\ Answered
    /\ d_answer[1].content = <<"M", "A", "Y", "B", "E">>
    /\ d_pc = "done"

(* C10: the tertiary RSI-only rule returns BUY for every RSI below 30, SELL *)
(* for every RSI above 70 and HOLD otherwise, for every RSI in [0, 100]     *)
(* with the endpoints; a missing RSI counts as 50.                          *)
C10_RsiRule ==
    (d_pc = "done" /\ d_outcome = "returned" /\ "tertiary" \in Range(d_tiers)) =>
        LET rsi == IF "rsi" \in DOMAIN d_indicators THEN d_indicators["rsi"] ELSE 50
        IN d_result[1] = IF rsi < 30 THEN BUY
                         ELSE IF rsi > 70 THEN SELL
                         ELSE HOLD

----------------------------------------------------------------------------
(* Claims about the advanced pipeline *)

\* the calls whose indicator computation and signal generation succeeded
Succeeded == {i \in 1..Len(a_results) : /\ a_results[i].outcome = "returned"
                                        /\ a_results[i].input.n >= MinBars}

(* C4: detect_regime is a function of the indicator set that applies, first *)
(* match wins: volatility > 0.05 * price gives volatile; else hurst > 0.6   *)
(* gives trending; else hurst < 0.4 gives ranging; else atr > 0.02 * price  *)
(* gives trending; else ranging.  A set with volatility 0.06 * price and    *)
(* hurst 0.8 is volatile.                                                   *)
C4_RegimePriority ==
    \A i \in Succeeded :
        LET ind == a_results[i].input.indicators
            regime == a_results[i].result[1].regime
            price == ind["current_price"]
            vol == ind["volatility"]
            hurst == ind["hurst_exponent"]
            atr == ind["atr"]
            high == 100 * vol > 500 * price
        IN /\ high => regime = "volatile"
           /\ (~high /\ hurst > 60) => regime = "trending"
           /\ (~high /\ hurst < 40) => regime = "ranging"
           /\ (~high /\ hurst >= 40 /\ hurst <= 60 /\ 100 * atr > 200 * price)
                  => regime = "trending"
           /\ (~high /\ hurst >= 40 /\ hurst <= 60 /\ 100 * atr <= 200 * price)
                  => regime = "ranging"
           /\ (vol = 6 * price /\ hurst = 80) => regime = "volatile"

\* a set with volatility 0.06 * price and hurst 0.8 was classified
C4_Witness ==
    \E i \in Succeeded :
        /\ a_results[i].input.indicators["volatility"] = 600
        /\ a_results[i].input.indicators["current_price"] = 100
        /\ a_results[i].input.indicators["hurst_exponent"] = 80
        /\ a_results[i].result[1].regime = "volatile"

(* C5: when indicator computation and signal generation succeed, the        *)
(* combined signal c gives BUY/STRONG if c > 0.3, BUY/WEAK if 0.1 < c <=    *)
(* 0.3, SELL/STRONG if c < -0.3, SELL/WEAK if -0.3 <= c < -0.1 and          *)
(* HOLD/NEUTRAL otherwise, so for c exactly 0.0, 0.1 or -0.1.               *)
C5_ThresholdMapping ==
    \A i \in Succeeded :
        LET r == a_results[i].result[1]
            c == r.combined_signal
            is(d, s) == r.decision = d /\ r.strength = s
        IN /\ c > 300000 => is(BUY, "STRONG")
           /\ (100000 < c /\ c <= 300000) => is(BUY, "WEAK")
           /\ c < -300000 => is(SELL, "STRONG")
           /\ (-300000 <= c /\ c < -100000) => is(SELL, "WEAK")
           /\ (-100000 <= c /\ c <= 100000) => is(HOLD, "NEUTRAL")
           /\ c \in {0, 100000, -100000} => is(HOLD, "NEUTRAL")

\* a call whose combined signal is exactly 0.1 gave HOLD/NEUTRAL
C5_Witness ==
    \E i \in Succeeded :
        /\ a_results[i].result[1].combined_signal = 100000
        /\ a_results[i].result[1].decision = HOLD
        /\ a_results[i].result[1].strength = "NEUTRAL"

\* SELL/STRONG < SELL/WEAK < HOLD/NEUTRAL < BUY/WEAK < BUY/STRONG
Rank(r) ==
    IF r.decision = SELL /\ r.strength = "STRONG" THEN 1
    ELSE IF r.decision = SELL /\ r.strength = "WEAK" THEN 2
    ELSE IF r.decision = HOLD /\ r.strength = "NEUTRAL" THEN 3
    ELSE IF r.decision = BUY /\ r.strength = "WEAK" THEN 4
    ELSE IF r.decision = BUY /\ r.strength = "STRONG" THEN 5
    ELSE 0

(* C6: the thresholding is monotonic and sign-symmetric: of two calls with  *)
(* combined signals a <= b the decision for a is not above the decision for *)
(* b; a signal raised past 0.1 moves the decision up to BUY/WEAK and one    *)
(* raised past 0.3 up to BUY/STRONG; the decision for -c is the decision    *)
(* for c with BUY and SELL swapped and the same strength.                   *)
C6_MonotonicSymmetric ==
    \A i \in Succeeded, j \in Succeeded :
        LET x == a_results[i].result[1]
            y == a_results[j].result[1]
            a == x.combined_signal
            b == y.combined_signal
        IN /\ Rank(x) \in 1..5
           /\ a <= b => Rank(x) <= Rank(y)
           /\ (a <= 100000 /\ 100000 < b /\ b <= 300000)
                  => (Rank(x) < 4 /\ Rank(y) = 4)
           /\ (a <= 300000 /\ 300000 < b) => (Rank(x) < 5 /\ Rank(y) = 5)
           /\ b = -a => (Rank(y) = 6 - Rank(x) /\ y.strength = x.strength)

\* two calls were made with opposite combined signals beyond 0.3
C6_Witness ==
    /\ Len(a_results) = 2
    /\ Succeeded = {1, 2}
    /\ a_results[1].result[1].combined_signal > 300000
    /\ a_results[2].result[1].combined_signal
           = -a_results[1].result[1].combined_signal

Regimes == {"trending", "ranging", "volatile"}

(* C7: for any indicator set, any regime and any portfolio_value >= 0,      *)
(* calculate_position_size returns a dollar amount within                   *)
(* [0, 0.25 * portfolio_value], and the position fraction before the        *)
(* total-risk cap is within [0, 0.10].                                      *)
C7_PositionSizeBounded ==
    \A i \in Succeeded :
        LET in == a_results[i].input
            r == a_results[i].result[1]
        IN /\ r.position_size >= 0
           /\ 4 * r.position_size <= 16000 * in.pv
           /\ a_results[i].fraction[1] >= 0
           /\ 10 * a_results[i].fraction[1] <= 16000
           /\ \A regime \in Regimes \cup {"unknown"} :
                /\ calculate_position_size(in.indicators, in.pv, regime) >= 0
                /\ 4 * calculate_position_size(in.indicators, in.pv, regime)
                       <= 16000 * in.pv
                /\ PositionFraction(in.indicators, regime) >= 0
                /\ 10 * PositionFraction(in.indicators, regime) <= 16000

\* a position was sized at the largest fraction, 3%, of a portfolio of 10000
C7_Witness ==
    \E i \in Succeeded :
        /\ a_results[i].input.pv = 10000
        /\ a_results[i].result[1].regime = "trending"
        /\ a_results[i].fraction = <<480>>
        /\ a_results[i].result[1].position_size = 4800000

\* the calls whose indicator computation failed and that returned a result
FellBack == {i \in 1..Len(a_results) : /\ a_results[i].outcome = "returned"
                                       /\ a_results[i].input.n < MinBars}

(* C11: whenever indicator computation or signal generation fails inside    *)
(* make_advanced_trading_decision and a result is returned, the result has  *)
(* strength FALLBACK, confidence 0.3, combined_signal 0, position_size 1%   *)
(* of portfolio_value, and a decision in {BUY, SELL, HOLD} that the         *)
(* fallback decision rule gives for the indicators_used.                    *)
C11_FallbackResult ==
    \A i \in FellBack :
        LET r == a_results[i].result[1]
        IN /\ r.strength = "FALLBACK"
           /\ r.confidence = 300000
           /\ r.combined_signal = 0
           /\ 100 * r.position_size = 16000 * a_results[i].input.pv
           /\ r.decision \in {BUY, SELL, HOLD}
           /\ r.decision = quant_based_decision(r.indicators_used)

\* a window of 29 bars closing at 100 fell back with a portfolio of 1000
C11_Witness ==
    \E i \in FellBack :
        /\ a_results[i].input.n = 29
        /\ a_results[i].input.close = 100
        /\ a_results[i].input.pv = 1000
        /\ a_results[i].result[1].position_size = 160000

\* the calls of make_trading_decision that are over, in order
FinishedCalls ==
    d_history \o (IF d_pc = "done" THEN <<CurrentCall>> ELSE << >>)

----------------------------------------------------------------------------
(* Initial allocation: allocation_maker.py *)

\* the indicator set get_quant_indicators returns (the dictionary of
\* calculate_indicators_from_data): it has no volatility, hurst_exponent or roc
QuantFallbackIndicators ==
    [rsi |-> 50, macd |-> [value |-> 0, signal |-> 0, histogram |-> 0],
     ema |-> 100, sma |-> 100,
     bollinger_bands |-> [upper |-> 110, middle |-> 100, lower |-> 90],
     stochastic |-> [k |-> 50, d |-> 50], bb_width |-> 20, bb_position |-> 50,
     current_price |-> 100, volume |-> 1000]

\* lines 25-49: the analysis of one asset; analysed is << >> when
\* get_historical_data, calculate_advanced_indicators or
\* generate_advanced_signals raised, else <<the indicators computed>>
AnalyseAsset(analysed, pv) ==
    IF analysed = << >>
    THEN [indicators |-> QuantFallbackIndicators,
          regime |-> "unknown", confidence |-> 300000, combined_signal |-> 0]
    ELSE [indicators |-> analysed[1],
          regime |-> generate_advanced_signals(analysed[1], pv).regime,
          confidence |-> generate_advanced_signals(analysed[1], pv).confidence,
          combined_signal |-> generate_advanced_signals(analysed[1], pv).combined_signal]

\* lines 53-71: the prompt reads rsi, volatility and current_price of every
\* analysis with indicators[...]
AllocPromptRaises(advanced_analyses, assets) ==
    \E i \in 1..Len(assets) :
        ~ ({"rsi", "volatility", "current_price"}
               \subseteq DOMAIN advanced_analyses[assets[i]].indicators)

\* lines 176-205 of _calculate_risk_weighted_allocation: asset_score in
\* units of 10^-8; combined_signal and confidence are taken in thousandths
AssetScore(analysis) ==
    LET indicators == analysis.indicators
        signal_strength == (Abs(analysis.combined_signal) \div 1000)
                           * (analysis.confidence \div 1000)
        momentum_score == Abs(Get(indicators, "roc", 0)) * 10 * 1000
        hurst == Get(indicators, "hurst_exponent", 50)
        trend_score == IF hurst > 60 THEN 300000
                       ELSE IF hurst < 40 THEN 200000
                       ELSE 100000
        vol_score == Max(100000, 1000000 - Get(indicators, "volatility", 2) * 100000)
        rsi == Get(indicators, "rsi", 50)
        rsi_score == 1000000 - Abs(rsi - 50) * 20000
    IN signal_strength * 30 + momentum_score * 20 + trend_score * 20
       + vol_score * 15 + rsi_score * 15

RECURSIVE SumScores(_, _)
SumScores(advanced_analyses, assets) ==
    IF assets = << >> THEN 0
    ELSE AssetScore(advanced_analyses[Head(assets)])
         + SumScores(advanced_analyses, Tail(assets))

\* an allocation is weights with a common divisor: the fraction of asset a
\* is weights[a] / divisor
\* _calculate_risk_weighted_allocation(advanced_analyses, assets)
calculate_risk_weighted_allocation(advanced_analyses, assets) ==
    LET total_score == SumScores(advanced_analyses, assets)
        names == {assets[i] : i \in 1..Len(assets)}
    IN IF total_score > 0
       THEN [weights |-> [a \in names |-> AssetScore(advanced_analyses[a])],
             divisor |-> total_score]
       ELSE [weights |-> [a \in names |-> 1], divisor |-> Len(assets)]

RECURSIVE SumValues(_, _)
SumValues(m, S) ==
    IF S = {} THEN 0
    ELSE LET k == CHOOSE x \in S : TRUE
         IN m[k] + SumValues(m, S \ {k})

\* lines 131-144: the provider's allocation (hundredths) validated and
\* normalised; << >> when the total is outside [0.8, 1.2]
NormaliseAllocation(allocation, assets) ==
    LET total_allocation == SumValues(allocation, DOMAIN allocation)
        names == {assets[i] : i \in 1..Len(assets)}
        final_allocation == [a \in names |-> Get(allocation, a, 0)]
        actual_sum == SumValues(final_allocation, names)
    IN IF 80 <= total_allocation /\ total_allocation <= 120
       THEN <<[weights |-> final_allocation,
               divisor |-> IF actual_sum > 0 THEN actual_sum ELSE 100]>>
       ELSE << >>

\* lines 102-155 for one behaviour of the provider: the client cannot be
\* built (outside the try block), create() raises, the answer holds no JSON
\* object or one json.loads or sum() rejects, or it holds an allocation
AllocationFromProvider(b, advanced_analyses, assets) ==
    IF b.kind = "unconstructed"
    THEN [outcome |-> "raised", allocation |-> << >>]
    ELSE IF b.kind = "json" /\ NormaliseAllocation(b.allocation, assets) # << >>
    THEN [outcome |-> "returned",
          allocation |-> NormaliseAllocation(b.allocation, assets)]
    ELSE [outcome |-> "returned",
          allocation |-> <<calculate_risk_weighted_allocation(advanced_analyses,
                                                              assets)>>]

\* make_advanced_initial_allocation_decision(assets, portfolio_value) with
\* the analyses of lines 24-49 done
AllocationDecision(b, advanced_analyses, assets) ==
    [analyses |-> advanced_analyses, answer |-> b]
    @@ (IF AllocPromptRaises(advanced_analyses, assets)
        THEN [outcome |-> "raised", allocation |-> << >>]
        ELSE AllocationFromProvider(b, advanced_analyses, assets))

\* the asset lists make_advanced_initial_allocation_decision is called with
AllocAssetLists == { <<"BTC">>, <<"BTC", "ETH">> }

\* what the analysis of one asset may give: << >> when it raised, else the
\* indicator set of calculate_advanced_indicators
AllocAnalysed ==
    { << >> } \cup
    { <<AdvIndicators(rsi, [value |-> 300, signal |-> 100, histogram |-> 200],
                      << >>, [upper |-> 110, middle |-> 100, lower |-> 90],
                      20, 0, 100, reg)>> :
        rsi \in {25, 50},
        reg \in { [volatility |-> 3, atr |-> 100, hurst_exponent |-> 50, skewness |-> 0],
                  [volatility |-> 600, atr |-> 100, hurst_exponent |-> 80, skewness |-> 0],
                  [volatility |-> 3, atr |-> 300, hurst_exponent |-> 50, skewness |-> 0] } }

\* the allocations a provider's JSON answer may hold, in hundredths: the
\* assets asked for, an asset more, only other assets, a total outside
\* [0.8, 1.2], part of the total on another asset, and the empty object
ProviderAllocations ==
    { [a \in {"BTC", "ETH"} |-> IF a = "BTC" THEN 60 ELSE 40],
      [a \in {"BTC", "ETH", "SOL"} |-> IF a = "BTC" THEN 50 ELSE IF a = "ETH" THEN 30 ELSE 20],
      [a \in {"SOL"} |-> 100],
      [a \in {"BTC", "ETH"} |-> IF a = "BTC" THEN 70 ELSE 60],
      [a \in {"BTC", "SOL"} |-> IF a = "BTC" THEN 30 ELSE 70],
      [a \in {"BTC", "ETH"} |-> IF a = "BTC" THEN 150 ELSE -50],
      << >> }

AllocProviderBehaviours ==
    { [kind |-> k, allocation |-> << >>] : k \in {"unconstructed", "raise", "text"} }
    \cup { [kind |-> "json", allocation |-> m] : m \in ProviderAllocations }

AllocInputs ==
    UNION { { [assets |-> assets, pv |-> 1000, analysed |-> f] :
                f \in [{assets[i] : i \in 1..Len(assets)} -> AllocAnalysed] } :
            assets \in AllocAssetLists }

\* make_advanced_initial_allocation_decision(assets, portfolio_value): the
\* next pending call is made
make_advanced_initial_allocation_decision ==
    /\ al_pending # << >>
    /\ \E b \in AllocProviderBehaviours :
         al_results' =
             Append(al_results,
                    [input |-> Head(al_pending)]
                    @@ AllocationDecision(
                           b,
                           [a \in DOMAIN Head(al_pending).analysed |->
                               AnalyseAsset(Head(al_pending).analysed[a],
                                            Head(al_pending).pv)],
                           Head(al_pending).assets))
    /\ al_pending' = Tail(al_pending)
    /\ UNCHANGED allocOthers

AllocInit ==
    /\ \E in \in AllocInputs : al_pending = <<in>>
    /\ al_results = << >>
    /\ CalcOff /\ ConcOff /\ MainOff
    /\ SimOff
    /\ DecOff
    /\ AdvOff

AllocNext == make_advanced_initial_allocation_decision

AllocSpec == AllocInit /\ [][AllocNext]_vars

----------------------------------------------------------------------------
(* Claims about the initial allocation *)

(* C13: every allocation record returned by                                 *)
(* make_advanced_initial_allocation_decision, from the provider's answer or *)
(* from the risk-weighted fallback, has fractions that sum to 1.0, for      *)
(* every non-empty asset list and every provider answer, including answers  *)
(* that name only assets outside the list.                                  *)
C13_FractionsSumToOne ==
    \A i \in 1..Len(al_results) :
        al_results[i].outcome = "returned" =>
            LET allocation == al_results[i].allocation[1]
            IN /\ DOMAIN allocation.weights
                    = {al_results[i].input.assets[k] :
                           k \in 1..Len(al_results[i].input.assets)}
               /\ SumValues(allocation.weights, DOMAIN allocation.weights)
                    = allocation.divisor

----------------------------------------------------------------------------
(* More claims about the portfolio simulator *)

\* the allocation ran on a fresh simulation: its record is the only one
AllocatedFresh ==
    /\ Len(trade_history) = 1
    /\ trade_history[1].decision = ALLOCATE

(* C14: starting from initialize_simulation(1000), an allocation over BTC   *)
(* and ETH of {BTC: 0.6, ETH: 0.4} leaves cash 0, BTC at 600, ETH at 400    *)
(* and portfolio_value 1000; in general an allocation of fractions f_a      *)
(* leaves each position at f_a * initial value, cash at the initial value   *)
(* minus the allocated sum, and the total unchanged.                        *)
C14_AllocationSplitsInitialValue ==
    AllocatedFresh =>
        LET rec == trade_history[1]
            initial == rec.initial_portfolio
            f == rec.allocation_breakdown
        IN /\ portfolio_value = initial
           /\ \A a \in DOMAIN positions :
                /\ a \in DOMAIN f
                /\ 100 * positions[a].usd_value = f[a] * initial
           /\ cash = <<initial - SumUsd(positions, DOMAIN positions)>>
           /\ (/\ initial = 100000
               /\ DOMAIN positions = {"BTC", "ETH"}
               /\ f = [a \in {"BTC", "ETH"} |-> IF a = "BTC" THEN 60 ELSE 40])
                 => /\ cash = <<0>>
                    /\ positions["BTC"].usd_value = 60000
                    /\ positions["ETH"].usd_value = 40000
                    /\ portfolio_value = 100000

\* 1000 was split 0.6 / 0.4 over BTC and ETH
C14_Witness ==
    /\ AllocatedFresh
    /\ initialized
    /\ trade_history[1].initial_portfolio = 100000
    /\ trade_history[1].allocation_breakdown
           = [a \in {"BTC", "ETH"} |-> IF a = "BTC" THEN 60 ELSE 40]
    /\ DOMAIN positions = {"BTC", "ETH"}
    /\ cash = <<0>>

----------------------------------------------------------------------------
(* Indicator calculator: quant_indicator_calculator.py, the closed-form     *)
(* tier (pandas-ta not available).  A price window is a record: close, the  *)
(* close prices; spread, with high = close + spread and low = close -       *)
(* spread of each bar; last_nan, whether the last bar's prices are NaN.     *)
(* Prices are whole numbers, the indicators are in thousandths.  A number   *)
(* that may be NaN is << >> for NaN and <<v>> for the value v.              *)

NaN == << >>
Num(v) == <<v>>

\* prices[-period:] when the window has period bars, else the whole window
LastBars(prices, period) ==
    IF Len(prices) >= period
    THEN SubSeq(prices, Len(prices) - period + 1, Len(prices))
    ELSE prices

RECURSIVE SumSquares(_)
SumSquares(seq) ==
    IF seq = << >> THEN 0 ELSE Head(seq) * Head(seq) + SumSquares(Tail(seq))

RECURSIVE MinOf(_)
MinOf(seq) ==
    IF Len(seq) = 1 THEN seq[1] ELSE Min(Head(seq), MinOf(Tail(seq)))

RECURSIVE MaxOf(_)
MaxOf(seq) ==
    IF Len(seq) = 1 THEN seq[1] ELSE Max(Head(seq), MaxOf(Tail(seq)))

\* the whole part of the square root
ISqrt(m) == CHOOSE r \in 0..2000 : r * r <= m /\ m < (r + 1) * (r + 1)

\* np.mean(prices), thousandths
Mean(prices) == (1000 * SumSeq(prices)) \div Len(prices)

\* np.std(prices), the population deviation, thousandths:
\* sqrt(n * sum(x^2) - sum(x)^2) / n
Std(prices) ==
    (1000 * ISqrt(Len(prices) * SumSquares(prices)
                  - SumSeq(prices) * SumSeq(prices))) \div Len(prices)

\* np.diff(prices), a difference with the NaN last price counting as neither
\* gain nor loss (both comparisons of lines 117-118 are false for NaN)
Deltas(w) ==
    [i \in 1..(Len(w.close) - 1) |->
        IF w.last_nan /\ i = Len(w.close) - 1 THEN 0
        ELSE w.close[i + 1] - w.close[i]]

RECURSIVE SumGain(_)
SumGain(deltas) ==
    IF deltas = << >> THEN 0
    ELSE (IF Head(deltas) > 0 THEN Head(deltas) ELSE 0) + SumGain(Tail(deltas))

RECURSIVE SumLoss(_)
SumLoss(deltas) ==
    IF deltas = << >> THEN 0
    ELSE (IF Head(deltas) < 0 THEN -Head(deltas) ELSE 0) + SumLoss(Tail(deltas))

\* lines 130-131 with rs = avg_gain / avg_loss written as 100 * rs, which
\* takes the place of 100 - 100 / (1 + rs)
RsiFromAverages_Unnormalised(gain, loss) == (100000 * gain) \div loss

\* lines 130-131: rs = avg_gain / avg_loss and 100 - 100 / (1 + rs), which is
\* 100 * gain / (gain + loss) for sums over the same bars
RsiFromAverages(gain, loss) == (100000 * gain) \div (gain + loss)

\* QuantIndicatorCalculator._calculate_rsi(prices, period = 14), lines
\* 115-132: with no difference at all avg_gain is 0 and avg_loss 0.001
calculate_rsi(w) ==
    LET deltas == LastBars(Deltas(w), 14)
    IN IF deltas = << >> THEN Num(0)
       ELSE IF SumLoss(deltas) = 0 THEN Num(100000)
       ELSE Num(RsiFromAverages(SumGain(deltas), SumLoss(deltas)))

\* QuantIndicatorCalculator._calculate_sma(prices, period = 20), lines 212-217
calculate_sma(w) ==
    IF w.close = << >> THEN Num(0)
    ELSE IF w.last_nan THEN NaN
    ELSE Num(Mean(LastBars(w.close, 20)))

\* the loop of lines 189-191, multiplier 2 / (period + 1), thousandths
RECURSIVE EmaFrom(_, _, _)
EmaFrom(ema, prices, period) ==
    IF prices = << >> THEN ema
    ELSE EmaFrom(ema + (2 * (Head(prices) - ema)) \div (period + 1),
                 Tail(prices), period)

\* QuantIndicatorCalculator._calculate_ema(prices, period = 20), lines 187-195
calculate_ema(w) ==
    IF w.close = << >> THEN Num(0)
    ELSE IF w.last_nan THEN NaN
    ELSE Num(EmaFrom(1000 * w.close[1],
                     [i \in 1..(Len(w.close) - 1) |-> 1000 * w.close[i + 1]], 20))

\* QuantIndicatorCalculator._calculate_bollinger_bands(prices, period = 20,
\* std_dev = 2), lines 239-250
calculate_bollinger_bands(w) ==
    IF w.close = << >> THEN [upper |-> Num(0), middle |-> Num(0), lower |-> Num(0)]
    ELSE IF w.last_nan THEN [upper |-> NaN, middle |-> NaN, lower |-> NaN]
    ELSE [upper |-> Num(Mean(LastBars(w.close, 20)) + 2 * Std(LastBars(w.close, 20))),
          middle |-> Num(Mean(LastBars(w.close, 20))),
          lower |-> Num(Mean(LastBars(w.close, 20)) - 2 * Std(LastBars(w.close, 20)))]

\* lines 290-294: k_val and its clamp max(0, min(100, k_val))
StochasticK(close, low_min, high_max) ==
    IF high_max - low_min # 0
    THEN Max(0, Min(100000, (100000 * (close - low_min)) \div (high_max - low_min)))
    ELSE 50000

\* QuantIndicatorCalculator._calculate_stochastic(high_prices, low_prices,
\* close_prices, k_period = 14, d_period = 3), lines 283-303; with a NaN last
\* bar k_val is NaN, min(100, NaN) is 100 and so is the clamped value; an
\* empty window raises at close_prices[-1], which the caller of this
\* operator has excluded
calculate_stochastic(w) ==
    IF w.last_nan THEN [k |-> Num(100000), d |-> Num(100000)]
    ELSE [k |-> Num(StochasticK(w.close[Len(w.close)],
                                MinOf(LastBars(w.close, 14)) - w.spread,
                                MaxOf(LastBars(w.close, 14)) + w.spread)),
          d |-> Num(StochasticK(w.close[Len(w.close)],
                                MinOf(LastBars(w.close, 14)) - w.spread,
                                MaxOf(LastBars(w.close, 14)) + w.spread))]

\* QuantIndicatorCalculator._ema(prices, period), lines 308-317: the array of
\* averages, which starts at prices[0]; ema_values holds the averages so far
RECURSIVE ema(_, _, _)
ema(ema_values, prices, period) ==
    IF prices = << >> THEN ema_values
    ELSE ema(Append(ema_values,
                    IF ema_values = << >> THEN Head(prices)
                    ELSE ema_values[Len(ema_values)]
                         + (2 * (Head(prices) - ema_values[Len(ema_values)]))
                           \div (period + 1)),
             Tail(prices), period)

\* the slow period of the MACD, line 158
MacdSlow == 26

\* macd_line = exp1 - exp2, line 159
MacdLine(exp1, exp2) == [i \in 1..Len(exp1) |-> exp1[i] - exp2[i]]

\* lines 160-166: the last values of the line and of its 9-bar average
MacdFrom(macd_line) ==
    [value |-> Num(macd_line[Len(macd_line)]),
     signal |-> Num(ema(<< >>, macd_line, 9)[Len(macd_line)]),
     histogram |-> Num(macd_line[Len(macd_line)]
                       - ema(<< >>, macd_line, 9)[Len(macd_line)])]

\* QuantIndicatorCalculator._calculate_macd(prices), lines 156-166, for a
\* window of at least one bar (_ema raises on an empty one)
calculate_macd(w) ==
    IF w.last_nan THEN [value |-> NaN, signal |-> NaN, histogram |-> NaN]
    ELSE MacdFrom(MacdLine(ema(<< >>, [i \in 1..Len(w.close) |-> 1000 * w.close[i]], 12),
                           ema(<< >>, [i \in 1..Len(w.close) |-> 1000 * w.close[i]], MacdSlow)))

\* line 83: bb_width = upper - lower
BandWidth(bb_data) ==
    IF bb_data.upper = NaN THEN NaN ELSE Num(bb_data.upper[1] - bb_data.lower[1])

\* line 84: (close_prices[-1] - lower) / bb_width unless bb_width is 0, and
\* then 0.5; a NaN width is not 0 and gives NaN
BandPosition(w, bb_data) ==
    IF bb_data.upper = NaN THEN NaN
    ELSE IF bb_data.upper[1] - bb_data.lower[1] # 0
    THEN Num((1000 * (1000 * w.close[Len(w.close)] - bb_data.lower[1]))
             \div (bb_data.upper[1] - bb_data.lower[1]))
    ELSE Num(500)

\* the dictionary of lines 86-97; the window has no volume column, so
\* volume is the 1 of np.ones
IndicatorSet(w) ==
    [rsi |-> calculate_rsi(w),
     macd |-> calculate_macd(w),
     ema |-> calculate_ema(w),
     sma |-> calculate_sma(w),
     bollinger_bands |-> calculate_bollinger_bands(w),
     stochastic |-> calculate_stochastic(w),
     bb_width |-> BandWidth(calculate_bollinger_bands(w)),
     bb_position |-> BandPosition(w, calculate_bollinger_bands(w)),
     current_price |-> IF w.last_nan THEN NaN ELSE Num(1000 * w.close[Len(w.close)]),
     volume |-> Num(1000)]

\* QuantIndicatorCalculator.calculate_indicators_from_data(price_data), lines
\* 39-97: no test of the window's length; the empty window raises IndexError
\* in _ema (line 313), every other window returns the dictionary
IndicatorsFromData(w) ==
    IF w.close = << >>
    THEN [input |-> w, outcome |-> "raised", result |-> << >>]
    ELSE [input |-> w, outcome |-> "returned", result |-> <<IndicatorSet(w)>>]

\* a window of n bars at 100, but at 100 + d at the places of S
Bars(n, S, d) == [i \in 1..n |-> IF i \in S THEN 100 + d ELSE 100]

\* the deviation of the Bollinger slice is a whole number: with k of m bars
\* d away from the others it is d * sqrt(k * (m - k)) / m
WholeDeviation(n, k) ==
    \E r \in 0..20 : r * r = Min(k, Min(n, 20)) * (Min(n, 20) - Min(k, Min(n, 20)))

\* the close prices of the windows: flat ones, ones that end on k bars d
\* higher or lower, and two that rise and fall
CalcCloses ==
    {Bars(n, (n - k + 1)..n, d) :
        <<n, k, d>> \in {t \in {0, 1, 2, 5, 10, 20, 25, 26, 30, 50}
                                \X {0, 1, 2, 4} \X {-50, 50} :
                            t[2] <= t[1] /\ WholeDeviation(t[1], t[2])}}
    \cup {Bars(10, {9}, 50), Bars(20, {16, 17, 19, 20}, 50)}

\* the price windows: high and low of a bar are spread away from its close,
\* and the last bar of a window may hold NaN
CalcWindows ==
    {w \in [close : CalcCloses, spread : {0, 5}, last_nan : BOOLEAN] :
        w.last_nan => w.close # << >>}

\* one call of calculate_indicators_from_data on the next window
calculate_indicators_from_data ==
    /\ q_pending # << >>
    /\ q_results' = Append(q_results, IndicatorsFromData(Head(q_pending)))
    /\ q_pending' = Tail(q_pending)
    /\ UNCHANGED calcOthers

CalcInit ==
    /\ q_pending \in {<<w>> : w \in CalcWindows}
    /\ q_results = << >>
    /\ SimOff /\ DecOff /\ AdvOff /\ AllocOff /\ ConcOff /\ MainOff

CalcNext == calculate_indicators_from_data

CalcSpec == CalcInit /\ [][CalcNext]_vars

\* the indicator sets calculate_indicators_from_data has returned, each with
\* the window it was computed from
Returned == {q_results[i] : i \in {j \in 1..Len(q_results) : q_results[j].outcome = "returned"}}

\* the indicator sets returned for windows that hold no NaN
ReturnedForPrices == {r \in Returned : ~r.input.last_nan}

\* C15: for every price window the bb_position of the returned indicator set
\* lies within [0, 1], also when the last close lies above the upper band or
\* below the lower band, and it is 0.5 when the band width is zero.
C15_BandPositionInUnitRange ==
    \A r \in ReturnedForPrices :
        /\ r.result[1].bb_position[1] \in 0..1000
        /\ r.result[1].bb_width = Num(0) => r.result[1].bb_position = Num(500)

\* C16: for every window of positive prices the closed-form tier returns rsi
\* in [0, 100], stochastic k and d in [0, 100], and Bollinger bands with
\* upper >= middle >= lower.
C16_OscillatorsAndBandsInRange ==
    \A r \in ReturnedForPrices :
        /\ r.result[1].rsi[1] \in 0..100000
        /\ r.result[1].stochastic.k[1] \in 0..100000
        /\ r.result[1].stochastic.d[1] \in 0..100000
        /\ r.result[1].bollinger_bands.upper[1] >= r.result[1].bollinger_bands.middle[1]
        /\ r.result[1].bollinger_bands.middle[1] >= r.result[1].bollinger_bands.lower[1]

\* a window that rises and falls: rsi and stochastic strictly inside their
\* range, the bands apart
C16_Witness ==
    \E r \in ReturnedForPrices :
        /\ r.result[1].rsi[1] \in 1..99999
        /\ r.result[1].rsi[1] # 50000
        /\ r.result[1].stochastic.k[1] \in 1..99999
        /\ r.result[1].bollinger_bands.upper[1] > r.result[1].bollinger_bands.lower[1]

\* C17: no field of a returned indicator set is undefined or NaN: an
\* indicator whose last value is NaN resolves to its named default.
C17_NoFieldIsNaN ==
    \A r \in Returned :
        /\ r.result[1].rsi # NaN
        /\ r.result[1].macd.value # NaN
        /\ r.result[1].macd.signal # NaN
        /\ r.result[1].macd.histogram # NaN
        /\ r.result[1].ema # NaN
        /\ r.result[1].sma # NaN
        /\ r.result[1].bollinger_bands.upper # NaN
        /\ r.result[1].bollinger_bands.middle # NaN
        /\ r.result[1].bollinger_bands.lower # NaN
        /\ r.result[1].stochastic.k # NaN
        /\ r.result[1].stochastic.d # NaN
        /\ r.result[1].bb_width # NaN
        /\ r.result[1].bb_position # NaN
        /\ r.result[1].current_price # NaN

\* C18: calculate_indicators_from_data fails for every window shorter than
\* its largest lookback, the 26 bars of the MACD, and returns no indicator
\* set for it.
C18_ShortWindowRejected ==
    \A i \in 1..Len(q_results) :
        Len(q_results[i].input.close) < MacdSlow => q_results[i].outcome = "raised"

\* C19: when make_advanced_trading_decision is given a window too short for
\* indicator computation, the error is surfaced and no BUY / SELL / HOLD
\* decision is returned for the asset.
C19_ShortWindowGivesNoDecision ==
    \A i \in 1..Len(a_results) :
        a_results[i].input.n < MinBars => a_results[i].outcome # "returned"

\* C20: the regime of every decision record returned by
\* make_advanced_trading_decision is one of trending, ranging, volatile.
C20_RegimeIsOneOfThree ==
    \A i \in 1..Len(a_results) :
        a_results[i].outcome = "returned" => a_results[i].result[1].regime \in Regimes

\* the weights, in hundredths, the claim C21 gives to the trend, mean
\* reversion, momentum and volatility signals and to the regime term
ClaimedWeights(regime) ==
    IF regime = "trending" THEN <<35, 0, 25, 20, 20>>
    ELSE IF regime = "volatile" THEN <<0, 30, 20, 25, 25>>
    ELSE <<25, 25, 25, 25, 0>>

\* the weighted sum of the signals s under the weights w, in millionths
WeightedSum(w, s) ==
    (w[1] * s.trend_signal + w[2] * s.mean_reversion_signal
     + w[3] * s.momentum_signal + w[4] * s.volatility_signal
     + w[5] * s.regime_signal) \div 100

\* C21: generate_advanced_signals combines the signals with weights that
\* depend on the regime and sum to 1: trending 0.35 trend + 0.25 momentum +
\* 0.20 regime term + 0.20 volatility; volatile 0.30 mean reversion + 0.25
\* volatility + 0.25 regime term + 0.20 momentum; otherwise 0.25 on each of
\* the four signals; and the confidence is the absolute value of the
\* combined signal.
C21_RegimeWeights ==
    /\ \A regime \in Regimes : SumSeq(ClaimedWeights(regime)) = 100
    /\ \A i \in Succeeded :
          /\ a_results[i].result[1].combined_signal
                 = WeightedSum(ClaimedWeights(a_results[i].result[1].regime),
                               a_results[i].result[1].detailed_signals)
          /\ a_results[i].result[1].confidence
                 = Abs(a_results[i].result[1].combined_signal)

\* a call in a volatile market whose signals differ from each other and
\* whose combined signal is negative
C21_Witness ==
    \E i \in Succeeded :
        /\ a_results[i].result[1].regime = "volatile"
        /\ a_results[i].result[1].detailed_signals.trend_signal
               # a_results[i].result[1].detailed_signals.mean_reversion_signal
        /\ a_results[i].result[1].detailed_signals.regime_signal # 0
        /\ a_results[i].result[1].combined_signal < 0

\* the moving-average term of the claim C22 for an indicator set: +0.5
\* when price > EMA > SMA, -0.5 when price < EMA < SMA, in millionths; the
\* averages are compared in hundredths of a price unit
ClaimedAverageTerm(price, ema_value, sma_value) ==
    IF price > ema_value /\ ema_value > sma_value THEN 500000
    ELSE IF price < ema_value /\ ema_value < sma_value THEN -500000
    ELSE 0

\* the MACD term of the claim C22: +0.3 above the signal, -0.3 below
ClaimedMacdTerm(macd) ==
    IF macd.value > macd.signal THEN 300000
    ELSE IF macd.value < macd.signal THEN -300000
    ELSE 0

\* the sum of the two terms for the indicator set of a call
ClaimedTrendSum(indicators) ==
    ClaimedAverageTerm(100 * indicators["current_price"],
                       IF "ema" \in DOMAIN indicators THEN 100 * indicators["ema"]
                       ELSE 99 * indicators["current_price"],
                       IF "sma" \in DOMAIN indicators THEN 100 * indicators["sma"]
                       ELSE 100 * indicators["current_price"])
    + ClaimedMacdTerm(indicators["macd"])

\* C22: the trend signal is the sum of the moving-average term and the MACD
\* term, multiplied by 1.2 for every RSI from 30 to 70, the bounds included,
\* and by 0.8 for every RSI below 30 or above 70; no RSI leaves the sum
\* unscaled.
C22_TrendSignalScaled ==
    \A i \in Succeeded :
        a_results[i].result[1].detailed_signals.trend_signal
            = IF /\ 30 <= a_results[i].input.indicators["rsi"]
                 /\ a_results[i].input.indicators["rsi"] <= 70
              THEN (ClaimedTrendSum(a_results[i].input.indicators) * 12) \div 10
              ELSE (ClaimedTrendSum(a_results[i].input.indicators) * 8) \div 10

\* a signal, in millionths, lies within [-2, 2]
WithinTwo(signal) == -2000000 <= signal /\ signal <= 2000000

\* C23: each of the four signals, the regime term and the combined signal
\* stays within [-2, 2] for every indicator set and regime, also for
\* indicator sets that carry a volatility_history.
C23_SignalsWithinTwo ==
    \A i \in Succeeded :
        /\ WithinTwo(a_results[i].result[1].detailed_signals.trend_signal)
        /\ WithinTwo(a_results[i].result[1].detailed_signals.mean_reversion_signal)
        /\ WithinTwo(a_results[i].result[1].detailed_signals.momentum_signal)
        /\ WithinTwo(a_results[i].result[1].detailed_signals.volatility_signal)
        /\ WithinTwo(a_results[i].result[1].detailed_signals.regime_signal)
        /\ WithinTwo(a_results[i].result[1].combined_signal)

----------------------------------------------------------------------------
(* Two calls of execute_trade_simulation on two threads, one statement at  *)
(* a time: hyperliquid_api.py has no lock around simulation_state.  The    *)
(* threads start once the simulation is initialized and allocated, and     *)
(* they trade different assets.                                            *)

Threads == {1, 2}

\* the asset each thread trades
ThreadAsset(t) == IF t = 1 THEN "BTC" ELSE "ETH"

\* the keys of simulation_state['positions'] in the order of their insertion
\* by execute_initial_allocation_simulation
KeysInOrder(pos) == SelectSeq(<<"BTC", "ETH">>, LAMBDA a : a \in DOMAIN pos)

\* the local variables of a call that has not started
NoLocals ==
    [decision |-> << >>, initial_portfolio |-> 0, current_position |-> << >>,
     total_value |-> 0, size |-> 0, todo |-> << >>, pnl |-> 0]

\* one thread goes on, its locals become l and the shared state stays
Goto(t, pc, l) ==
    /\ t_pc' = [t_pc EXCEPT ![t] = pc]
    /\ t_local' = [t_local EXCEPT ![t] = l]

\* lines 54-58: the simulation is initialized; initial_portfolio is read
ThreadStart(t) ==
    /\ t_pc[t] = "idle"
    /\ initialized /\ initial_allocation_done
    /\ \E decision \in {BUY, SELL} :
          Goto(t, "read_position",
               [NoLocals EXCEPT !.decision = decision,
                                !.initial_portfolio = portfolio_value])
    /\ UNCHANGED <<simVars, concOthers>>

\* lines 61-63: current_position = simulation_state['positions'].get(asset, ...)
ThreadReadPosition(t) ==
    /\ t_pc[t] = "read_position"
    /\ Goto(t, "write_position",
            [t_local[t] EXCEPT !.current_position =
                IF ThreadAsset(t) \in DOMAIN positions THEN positions[ThreadAsset(t)]
                ELSE [size |-> 0, entry_price |-> 0, usd_value |-> 0]])
    /\ UNCHANGED <<simVars, concOthers>>

\* lines 66-107: the position of the asset is replaced by the scaled one
ThreadWritePosition(t) ==
    /\ t_pc[t] = "write_position"
    /\ \E factor \in FactorsFor(t_local[t].decision) :
          positions' = [a \in DOMAIN positions \cup {ThreadAsset(t)} |->
                          IF a = ThreadAsset(t)
                          THEN [size |-> Scale(t_local[t].current_position.size, factor),
                                entry_price |-> Scale(t_local[t].current_position.entry_price, factor),
                                usd_value |-> Scale(t_local[t].current_position.usd_value, factor)]
                          ELSE positions[a]]
    /\ Goto(t, "read_cash", t_local[t])
    /\ UNCHANGED <<portfolio_value, trade_history, initialized,
                   initial_allocation_done, cash, sim_result, simOps, concOthers>>

\* lines 110-111: total_value = simulation_state.get('cash', 0), and the
\* iterator over positions.items() is made
ThreadReadCash(t) ==
    /\ t_pc[t] = "read_cash"
    /\ Goto(t, "next_position",
            [t_local[t] EXCEPT !.total_value = IF cash = << >> THEN 0 ELSE cash[1],
                               !.size = Cardinality(DOMAIN positions),
                               !.todo = KeysInOrder(positions)])
    /\ UNCHANGED <<simVars, concOthers>>

\* lines 111-112: one step of the loop over positions.items(); the iterator
\* raises RuntimeError when the dictionary has changed its size
ThreadNextPosition(t) ==
    /\ t_pc[t] = "next_position"
    /\ IF Cardinality(DOMAIN positions) # t_local[t].size
       THEN Goto(t, "raised", t_local[t])
       ELSE IF t_local[t].todo = << >>
       THEN Goto(t, "write_value", t_local[t])
       ELSE Goto(t, "next_position",
                 [t_local[t] EXCEPT !.total_value =
                                        @ + positions[Head(t_local[t].todo)].usd_value,
                                    !.todo = Tail(@)])
    /\ UNCHANGED <<simVars, concOthers>>

\* line 114: simulation_state['portfolio_value'] = total_value
ThreadWriteValue(t) ==
    /\ t_pc[t] = "write_value"
    /\ portfolio_value' = t_local[t].total_value
    /\ Goto(t, "read_pnl", t_local[t])
    /\ UNCHANGED <<positions, trade_history, initialized,
                   initial_allocation_done, cash, sim_result, simOps, concOthers>>

\* line 117: pnl = simulation_state['portfolio_value'] - initial_portfolio
ThreadReadPnl(t) ==
    /\ t_pc[t] = "read_pnl"
    /\ Goto(t, "record",
            [t_local[t] EXCEPT !.pnl = portfolio_value - t_local[t].initial_portfolio])
    /\ UNCHANGED <<simVars, concOthers>>

\* lines 121-131: the trade record is built and appended
ThreadRecord(t) ==
    /\ t_pc[t] = "record"
    /\ trade_history' =
           Append(trade_history,
                  [asset |-> ThreadAsset(t), decision |-> t_local[t].decision,
                   initial_portfolio |-> t_local[t].initial_portfolio,
                   final_portfolio |-> portfolio_value,
                   pnl |-> t_local[t].pnl,
                   pnl_percentage |->
                       IF t_local[t].initial_portfolio > 0
                       THEN (t_local[t].pnl * 1000) \div t_local[t].initial_portfolio
                       ELSE 0])
    /\ Goto(t, "done", t_local[t])
    /\ UNCHANGED <<portfolio_value, positions, initialized,
                   initial_allocation_done, cash, sim_result, simOps, concOthers>>

\* the simulation is initialized, and then allocated once, before the
\* threads start
ConcSetup ==
    /\ \A t \in Threads : t_pc[t] = "idle"
    /\ \/ ~initialized /\ Initialize
       \/ initialized /\ ~initial_allocation_done /\ Allocate

ConcInit ==
    /\ SimInit
    /\ t_pc = [t \in Threads |-> "idle"]
    /\ t_local = [t \in Threads |-> NoLocals]
    /\ DecOff /\ AdvOff /\ AllocOff /\ CalcOff /\ MainOff

ConcNext ==
    \/ ConcSetup
    \/ \E t \in Threads :
          \/ ThreadStart(t)
          \/ ThreadReadPosition(t)
          \/ ThreadWritePosition(t)
          \/ ThreadReadCash(t)
          \/ ThreadNextPosition(t)
          \/ ThreadWriteValue(t)
          \/ ThreadReadPnl(t)
          \/ ThreadRecord(t)

ConcSpec == ConcInit /\ [][ConcNext]_vars

\* C24: when two execute_trade_simulation calls for different assets
\* interleave at the level of their reads and writes of the shared state,
\* then once both have completed portfolio_value equals cash plus the sum of
\* the positions' usd_value.
C24_NoLostUpdate ==
    (\A t \in Threads : t_pc[t] = "done")
        => portfolio_value = cash[1] + SumUsd(positions, DOMAIN positions)

\* the first trade since the simulation was initialized has been executed,
\* with no initial allocation before it: the traded asset had no position
FirstTradeOnEmpty ==
    /\ initialized
    /\ Len(trade_history) = 1
    /\ trade_history[1].asset \in Assets
    /\ trade_history[1].initial_portfolio > 0

\* C25: after initialize_simulation(f) with f > 0 and before any initial
\* allocation, executing any decision on an asset that has no position
\* leaves portfolio_value equal to f and reports a P&L of 0.
C25_FundsKeptOnEmptyPosition ==
    FirstTradeOnEmpty =>
        /\ portfolio_value = trade_history[1].initial_portfolio
        /\ sim_result[1].pnl = 0

\* the calls that returned a decision of the try block for a portfolio
\* value above 0
SizedCalls == {i \in Succeeded : a_results[i].input.pv > 0}

\* C28: the total-risk cap is never the binding limit: for every indicator
\* set, regime and portfolio_value > 0, calculate_position_size returns an
\* amount that is strictly positive and at most 3% of portfolio_value,
\* because the estimated win rate is always within [0.45, 0.65].
C28_RiskCapNeverBinds ==
    \A i \in SizedCalls :
        /\ a_results[i].result[1].position_size > 0
        /\ 100 * a_results[i].result[1].position_size
               <= 3 * 16000 * a_results[i].input.pv
        /\ a_results[i].result[1].position_size
               = a_results[i].input.pv * a_results[i].fraction[1]
        /\ a_results[i].result[1].position_size
               < a_results[i].input.pv * max_total_risk
        /\ estimate_win_rate(a_results[i].input.indicators,
                             a_results[i].result[1].regime) \in 45..65

\* a call in a volatile market at a neutral RSI, where the win rate would be
\* 0.40 without its lower bound: the size is 0.0375 * 0.7 * 0.25 of 1000
C28_Witness ==
    \E i \in SizedCalls :
        /\ a_results[i].input.pv = 1000
        /\ a_results[i].result[1].regime = "volatile"
        /\ a_results[i].input.indicators["rsi"] = 50
        /\ a_results[i].input.indicators["roc"] = 0
        /\ a_results[i].result[1].position_size = 105000

----------------------------------------------------------------------------
(* The trading loop of main(): main.py, lines 33-73.  Only the control     *)
(* flow is kept: every step of a cycle either returns, raises an Exception *)
(* or is interrupted from the keyboard.                                    *)

\* max_iterations, line 35
max_iterations == 100

\* args.assets, line 18
MainAssets == <<"BTC", "ETH">>

\* the steps of the cycle for one asset, lines 43, 49, 52 and 58
MainSteps == <<"fetch", "decide", "execute", "log">>

\* the step after step, << >> after the last one
StepAfter(step) ==
    IF step = "fetch" THEN <<"decide">>
    ELSE IF step = "decide" THEN <<"execute">>
    ELSE IF step = "execute" THEN <<"log">>
    ELSE << >>

\* line 37: while iterations < max_iterations, and the entry of the for loop
MainWhile ==
    /\ m_pc = "while"
    /\ IF m_iterations < max_iterations
       THEN m_pc' = "fetch" /\ m_asset' = 1
       ELSE m_pc' = "exited" /\ m_asset' = 0
    /\ UNCHANGED m_iterations
    /\ UNCHANGED mainOthers

\* a step returns: the next step, the next asset, or iterations += 1 (line
\* 63) after the last asset
MainStepReturns ==
    /\ m_pc \in {"fetch", "decide", "execute", "log"}
    /\ IF StepAfter(m_pc) # << >>
       THEN m_pc' = StepAfter(m_pc)[1] /\ UNCHANGED <<m_asset, m_iterations>>
       ELSE IF m_asset < Len(MainAssets)
       THEN m_pc' = "fetch" /\ m_asset' = m_asset + 1 /\ UNCHANGED m_iterations
       ELSE m_pc' = "while" /\ m_asset' = 0 /\ m_iterations' = m_iterations + 1
    /\ UNCHANGED mainOthers

\* a step raises an Exception: lines 69-71 catch it and the while loop goes
\* on, iterations as it was
MainStepRaises ==
    /\ m_pc \in {"fetch", "decide", "execute", "log"}
    /\ m_pc' = "while"
    /\ m_asset' = 0
    /\ UNCHANGED m_iterations
    /\ UNCHANGED mainOthers

\* KeyboardInterrupt during a step: lines 66-68 break out of the loop
MainInterrupted ==
    /\ m_pc \in {"fetch", "decide", "execute", "log"}
    /\ m_pc' = "exited"
    /\ m_asset' = 0
    /\ UNCHANGED m_iterations
    /\ UNCHANGED mainOthers

MainInit ==
    /\ m_pc = "while"
    /\ m_iterations = 0
    /\ m_asset = 0
    /\ SimOff /\ DecOff /\ AdvOff /\ AllocOff /\ CalcOff /\ ConcOff

MainNext == MainWhile \/ MainStepReturns \/ MainStepRaises \/ MainInterrupted

MainSpec == MainInit /\ [][MainNext]_vars

\* main() keeps running while it has a statement to run
MainLiveSpec == MainSpec /\ WF_vars(MainNext)

\* C26: the trading loop of main terminates: it runs at most 100 cycles and
\* then exits, for every behaviour of the fetch, decide, execute and log
\* steps, also when a step raises an error on every cycle.
C26_LoopTerminates == <>(m_pc = "exited")

\* the step is a call of execute_trade_simulation: a simulator call that
\* leaves the record of a trade of an asset at the end of trade_history
IsTradeStep ==
    /\ simOps' = simOps + 1
    /\ trade_history' # << >>
    /\ trade_history'[Len(trade_history')].asset \in Assets

QuantWithoutPrice ==
    /\ d_pc = "done"
    /\ "secondary" \in Range(d_tiers)
    /\ ("current_price" \notin DOMAIN d_indicators
        \/ d_indicators["current_price"] = 0)

\* C29: for an indicator map that has no current_price, or a current_price
\* of 0, quant_based_decision returns exactly what simple_technical_decision
\* returns for the same map: the secondary tier fails on the price
\* normalisation and the decision depends on the RSI alone.
C29_NoPriceFallsToRsiRule ==
    QuantWithoutPrice =>
        /\ "secondary" \in d_failed
        /\ d_tiers = <<"primary", "secondary", "tertiary">>
        /\ d_outcome = "returned"
        /\ d_result = <<simple_technical_decision(d_indicators)>>
        /\ d_result[1] = IF d_indicators["rsi"] \in 1..29 THEN BUY
                         ELSE IF d_indicators["rsi"] > 70 THEN SELL
                         ELSE HOLD

\* the mock indicators of get_technical_indicators with an RSI of 15: BUY
C29_Witness ==
    /\ QuantWithoutPrice
    /\ d_indicators = MockIndicators(15)
    /\ d_result = <<BUY>>

\* C30: every allocation record returned by
\* make_advanced_initial_allocation_decision has exactly the requested
\* assets as keys and every fraction within [0, 1], for every provider
\* answer, also answers with negative or above-1 values whose total lies in
\* [0.8, 1.2].
C30_FractionsWithinUnit ==
    \A i \in 1..Len(al_results) :
        al_results[i].outcome = "returned" =>
            /\ DOMAIN al_results[i].allocation[1].weights
                   = Range(al_results[i].input.assets)
            /\ \A a \in DOMAIN al_results[i].allocation[1].weights :
                  /\ al_results[i].allocation[1].weights[a] >= 0
                  /\ al_results[i].allocation[1].weights[a]
                         <= al_results[i].allocation[1].divisor

====
